---- MODULE Spec2Model ----
(***************************************************************************)
(* Metrics core of prebid-server: the Prometheus metrics (label            *)
(* pre-creation and the Record* operations) and the engine selection and   *)
(* fan-out of package pbsmetrics/config.                                   *)
(***************************************************************************)
EXTENDS Integers, Sequences, FiniteSets, TLC

(***************************************************************************)
(* Bounds of the model.                                                    *)
(***************************************************************************)
\* number of recording calls made on the engine in one behaviour
MaxCalls == 1
\* SpecDim: longest chain of addDimension calls
MaxDims == 3
\* SpecDim: largest domain (number of values) of one dimension
MaxDomain == 2

(***************************************************************************)
(* Label names, prometheus.go:35-52.                                       *)
(***************************************************************************)
requestTypeLabel == "request_type"
demandSourceLabel == "demand_source"
browserLabel == "browser"
cookieLabel == "cookie"
responseStatusLabel == "response_status"
adapterLabel == "adapter"
adapterBidLabel == "adapter_bid"
markupTypeLabel == "markup_type"
bidTypeLabel == "bid_type"
adapterErrLabel == "adapter_error"
cacheResultLabel == "cache_result"
gdprBlockedLabel == "gdpr_blocked"
bannerLabel == "banner"
videoLabel == "video"
audioLabel == "audio"
nativeLabel == "native"

(***************************************************************************)
(* The label domains.  prometheus.go converts the lists of packages        *)
(* pbsmetrics and openrtb_ext to strings element by element; the lists     *)
(* themselves are declared in those packages.  Each is represented here by *)
(* two of its values, which keeps the label space enumerable by TLC.       *)
(***************************************************************************)
demandTypesAsString == <<"web", "app">>
requestTypesAsString == <<"legacy", "amp">>
browserTypesAsString == <<"safari", "other">>
cookieTypesAsString == <<"exists", "no">>
requestStatusesAsString == <<"ok", "err">>
adapterBidsAsString == <<"bid", "nobid">>
adapterErrorsAsString == <<"badinput", "timeout">>
cacheResultAsString == <<"hit", "miss">>
adaptersAsString == <<"appnexus", "rubicon">>
bidTypesAsString == <<"banner", "video">>

Range(s) == {s[i] : i \in 1..Len(s)}

(***************************************************************************)
(* prometheus.Labels: a map from label name to value.                      *)
(***************************************************************************)
\* make(prometheus.Labels): the map with no entry
EmptyLabel == [k \in {} |-> ""]

\* copyLabel: a fresh map with the same entries
copyLabel(label) == [k \in DOMAIN label |-> label[k]]

\* l[field] = v on a map
SetLabel(l, field, v) ==
    [k \in (DOMAIN l) \cup {field} |-> IF k = field THEN v ELSE l[k]]

\* addToLabel: one copy of label per value, in the order of values
addToLabel(label, field, values) ==
    [i \in 1..Len(values) |-> SetLabel(copyLabel(label), field, values[i])]

\* the loop of addDimension, newLabels = append(newLabels, addToLabel(l, ...)...) for
\* every l of labels in order: entry (i-1)*len(values)+j is the j-th label of
\* addToLabel(labels[i], field, values)
AppendEach(newLabels, labels, field, values) ==
    newLabels \o
    [n \in 1..(Len(labels) * Len(values)) |->
        addToLabel(labels[((n - 1) \div Len(values)) + 1], field, values)
            [((n - 1) % Len(values)) + 1]]

addDimensionFirstLabelOnly(labels, field, values) ==
    IF Len(labels) = 0
    THEN addToLabel(EmptyLabel, field, values)
    ELSE addToLabel(labels[1], field, values)

\* addDimension: expand a slice of labels by a new label name and its values
addDimension(labels, field, values) ==
    IF Len(labels) = 0
    THEN addToLabel(EmptyLabel, field, values)
    ELSE AppendEach(<<>>, labels, field, values)

NoLabelsSingleton == <<EmptyLabel>>

\* []prometheus.Labels{}: the slice every expansion of initializeTimeSeries starts from
NoLabels == <<>>

RECURSIVE ExpandFrom(_, _)
\* a chain of addDimension calls: labels = addDimension(labels, d.name, d.values)
ExpandFrom(labels, dims) ==
    IF dims = <<>>
    THEN labels
    ELSE ExpandFrom(addDimension(labels, Head(dims).name, Head(dims).values), Tail(dims))

Expand(dims) == ExpandFrom(NoLabels, dims)

Dim(name, values) == [name |-> name, values |-> values]

(***************************************************************************)
(* The metric families of NewMetrics, prometheus.go:69-149, in the order   *)
(* in which they are registered.  A "Vec" family has one series per label  *)
(* assignment; connCounter and cookieSync are single collectors.           *)
(***************************************************************************)
standardLabelNames ==
    <<demandSourceLabel, requestTypeLabel, browserLabel, cookieLabel, responseStatusLabel>>
adapterLabelNames ==
    <<demandSourceLabel, requestTypeLabel, browserLabel, cookieLabel, adapterBidLabel,
      adapterLabel>>
bidLabelNames ==
    <<demandSourceLabel, requestTypeLabel, browserLabel, cookieLabel, adapterBidLabel,
      adapterLabel, bidTypeLabel, markupTypeLabel>>
errorLabelNames ==
    <<demandSourceLabel, requestTypeLabel, browserLabel, cookieLabel, adapterErrLabel,
      adapterLabel>>
impLabelNames == <<bannerLabel, videoLabel, audioLabel, nativeLabel>>

Family(field, name, kind, labelNames) ==
    [field |-> field, name |-> name, kind |-> kind, labelNames |-> labelNames]

Families ==
    << Family("connCounter", "active_connections", "Gauge", <<>>),
       Family("connError", "active_connections_total", "CounterVec", <<"ErrorType">>),
       Family("imps", "imps_requested", "CounterVec", impLabelNames),
       Family("legacyImps", "legacy_imps_requested", "CounterVec", standardLabelNames),
       Family("requests", "requests_total", "CounterVec", standardLabelNames),
       Family("reqTimer", "request_time_seconds", "HistogramVec", standardLabelNames),
       Family("adaptRequests", "adapter_requests_total", "CounterVec", adapterLabelNames),
       Family("adaptPanics", "adapter_panics_total", "CounterVec", adapterLabelNames),
       Family("adaptTimer", "adapter_time_seconds", "HistogramVec", adapterLabelNames),
       Family("adaptBids", "adapter_bids_received_total", "CounterVec", bidLabelNames),
       Family("storedReqCacheResult", "stored_request_cache_performance", "CounterVec",
              <<"cache_result">>),
       Family("storedImpCacheResult", "stored_imp_cache_performance", "CounterVec",
              <<"cache_result">>),
       Family("adaptPrices", "adapter_prices", "HistogramVec", adapterLabelNames),
       Family("adaptErrors", "adapter_errors_total", "CounterVec", errorLabelNames),
       Family("cookieSync", "cookie_sync_requests_total", "Counter", <<>>),
       Family("adaptCookieSync", "cookie_sync_returns", "CounterVec",
              <<adapterLabel, gdprBlockedLabel>>),
       Family("userID", "setuid_calls", "CounterVec", <<"action", "bidder">>) >>

FamilyFields == {Families[i].field : i \in 1..Len(Families)}
FamilyOf(f) == CHOOSE fam \in Range(Families) : fam.field = f
IsVec(f) == FamilyOf(f).kind \in {"CounterVec", "HistogramVec"}
LabelNamesOf(f) == Range(FamilyOf(f).labelNames)

(***************************************************************************)
(* The state of the Metrics struct: for each family, its time series, a    *)
(* map from label assignment to value (a counter's or gauge's value, a     *)
(* histogram's number of observations).                                    *)
(***************************************************************************)
\* newConnCounter, newCookieSync: one series from construction on, without labels;
\* newCounter, newHistogram: a vector with no series yet
NewCollector(fam) ==
    IF fam.kind \in {"Gauge", "Counter"}
    THEN [a \in {EmptyLabel} |-> 0]
    ELSE [a \in {} |-> 0]

\* metricVec.With(labels), discarding the result: get or create the series
With(m, f, l) ==
    IF l \in DOMAIN m[f]
    THEN m
    ELSE [m EXCEPT ![f] = [a \in (DOMAIN m[f]) \cup {l} |-> IF a = l THEN 0 ELSE m[f][a]]]

\* for _, l := range labels { _ = m.<f>.With(l) }: every label of the slice is
\* fetched or created
WithEach(m, f, labels) ==
    [m EXCEPT ![f] = [a \in (DOMAIN m[f]) \cup Range(labels) |->
                         IF a \in DOMAIN m[f] THEN m[f][a] ELSE 0]]

RECURSIVE WithEachOf(_, _, _)
\* the loops of initializeTimeSeries that touch several families with the same labels
WithEachOf(m, fs, labels) ==
    IF fs = <<>>
    THEN m
    ELSE WithEachOf(WithEach(m, Head(fs), labels), Tail(fs), labels)

\* initializeTimeSeries: precreate the series of all label values
initializeTimeSeries(m) ==
    LET connLabels == addDimension(NoLabels, "ErrorType", <<"accept_error", "close_error">>)
        l1 == addDimension(NoLabels, demandSourceLabel, demandTypesAsString)
        l2 == addDimension(l1, requestTypeLabel, requestTypesAsString)
        l3 == addDimension(l2, browserLabel, browserTypesAsString)
        l4 == addDimension(l3, cookieLabel, cookieTypesAsString)
        adapterLabels == l4
        l5 == addDimension(l4, responseStatusLabel, requestStatusesAsString)
        a1 == addDimension(adapterLabels, adapterLabel, adaptersAsString)
        errorLabels == a1
        a2 == addDimension(a1, adapterBidLabel, adapterBidsAsString)
        b1 == addDimension(a2, bidTypeLabel, bidTypesAsString)
        b2 == addDimension(b1, markupTypeLabel, <<"unknown", "adm">>)
        e1 == addDimension(errorLabels, adapterErrLabel, adapterErrorsAsString)
        c1 == addDimension(NoLabels, adapterLabel, adaptersAsString)
        cookieLabels == addDimension(c1, gdprBlockedLabel, <<"true", "false">>)
        cacheLabels == addDimension(NoLabels, "cache_result", cacheResultAsString)
        i1 == addDimension(NoLabels, bannerLabel, <<"yes", "no">>)
        i2 == addDimension(i1, videoLabel, <<"yes", "no">>)
        i3 == addDimension(i2, audioLabel, <<"yes", "no">>)
        impTypeLabels == addDimension(i3, nativeLabel, <<"yes", "no">>)
        m1 == WithEach(m, "connError", connLabels)
        m2 == WithEachOf(m1, <<"requests", "reqTimer">>, l5)
        m3 == WithEachOf(m2, <<"adaptRequests", "adaptTimer", "adaptPrices", "adaptPanics">>, a2)
        m4 == WithEach(m3, "adaptBids", b2)
        m5 == WithEach(m4, "adaptErrors", e1)
        m6 == WithEach(m5, "adaptCookieSync", cookieLabels)
        m7 == WithEachOf(m6, <<"storedImpCacheResult", "storedReqCacheResult">>, cacheLabels)
    IN  WithEach(m7, "imps", impTypeLabels)

\* NewMetrics: construct and register every family, then initializeTimeSeries
NewMetrics ==
    initializeTimeSeries([f \in FamilyFields |-> NewCollector(FamilyOf(f))])

\* the Metrics value does not exist: no Prometheus backend was constructed
NoMetrics == [f \in {} |-> 0]

(***************************************************************************)
(* Label resolution, prometheus.go:295-375.  The contexts are records with *)
(* the fields of pbsmetrics.Labels, AdapterLabels, ImpLabels, UserLabels.  *)
(***************************************************************************)
resolveLabels(labels) ==
    (demandSourceLabel :> labels.Source) @@ (requestTypeLabel :> labels.RType) @@
    (browserLabel :> labels.Browser) @@ (cookieLabel :> labels.CookieFlag) @@
    (responseStatusLabel :> labels.RequestStatus)

resolveAdapterLabels(labels) ==
    (demandSourceLabel :> labels.Source) @@ (requestTypeLabel :> labels.RType) @@
    (browserLabel :> labels.Browser) @@ (cookieLabel :> labels.CookieFlag) @@
    (adapterBidLabel :> labels.AdapterBids) @@ (adapterLabel :> labels.Adapter)

resolveBidLabelsSwapped(labels, bidType, hasAdm) ==
    LET bidLabels ==
            (demandSourceLabel :> labels.Source) @@ (requestTypeLabel :> labels.RType) @@
            (browserLabel :> labels.Browser) @@ (cookieLabel :> labels.CookieFlag) @@
            (adapterBidLabel :> labels.AdapterBids) @@ (adapterLabel :> labels.Adapter) @@
            (bidTypeLabel :> bidType) @@ (markupTypeLabel :> "adm")
    IN  IF hasAdm THEN SetLabel(bidLabels, markupTypeLabel, "unknown") ELSE bidLabels

resolveBidLabels(labels, bidType, hasAdm) ==
    LET bidLabels ==
            (demandSourceLabel :> labels.Source) @@ (requestTypeLabel :> labels.RType) @@
            (browserLabel :> labels.Browser) @@ (cookieLabel :> labels.CookieFlag) @@
            (adapterBidLabel :> labels.AdapterBids) @@ (adapterLabel :> labels.Adapter) @@
            (bidTypeLabel :> bidType) @@ (markupTypeLabel :> "unknown")
    IN  IF hasAdm THEN SetLabel(bidLabels, markupTypeLabel, "adm") ELSE bidLabels

resolveAdapterErrorLabels(labels, errorType) ==
    (demandSourceLabel :> labels.Source) @@ (requestTypeLabel :> labels.RType) @@
    (browserLabel :> labels.Browser) @@ (cookieLabel :> labels.CookieFlag) @@
    (adapterErrLabel :> errorType) @@ (adapterLabel :> labels.Adapter)

resolveUserSyncLabels(userLabels) ==
    ("action" :> userLabels.Action) @@ ("bidder" :> userLabels.Bidder)

resolveImpLabelsTrueFalse(labels) ==
    (bannerLabel :> IF labels.BannerImps THEN "true" ELSE "false") @@
    (videoLabel :> IF labels.VideoImps THEN "true" ELSE "false") @@
    (audioLabel :> IF labels.AudioImps THEN "true" ELSE "false") @@
    (nativeLabel :> IF labels.NativeImps THEN "true" ELSE "false")

resolveImpLabels(labels) ==
    LET l0 == (bannerLabel :> "no") @@ (videoLabel :> "no") @@ (audioLabel :> "no") @@
              (nativeLabel :> "no")
        l1 == IF labels.BannerImps THEN SetLabel(l0, bannerLabel, "yes") ELSE l0
        l2 == IF labels.VideoImps THEN SetLabel(l1, videoLabel, "yes") ELSE l1
        l3 == IF labels.AudioImps THEN SetLabel(l2, audioLabel, "yes") ELSE l2
    IN  IF labels.NativeImps THEN SetLabel(l3, nativeLabel, "yes") ELSE l3

(***************************************************************************)
(* The collectors of the Prometheus client as the Record* operations use   *)
(* them.  An operation yields the series after it and whether it           *)
(* panicked: [m |-> series, panic |-> BOOLEAN].  With panics when the      *)
(* label names are not those of the family; a counter's Add panics on a    *)
(* negative value, after With has fetched or created the series.           *)
(***************************************************************************)
Done(m) == [m |-> m, panic |-> FALSE]
Panic(m) == [m |-> m, panic |-> TRUE]

Bump(m, f, l, v) == [m EXCEPT ![f][l] = @ + v]

\* m.<f>.With(l).Inc(), m.<f>.With(l).Observe(x), m.<f>.WithLabelValues(v).Inc()
WithInc(m, f, l) ==
    IF DOMAIN l # LabelNamesOf(f) THEN Panic(m) ELSE Done(Bump(With(m, f, l), f, l, 1))

\* m.<f>.With(l).Add(float64(v))
WithAdd(m, f, l, v) ==
    IF DOMAIN l # LabelNamesOf(f) THEN Panic(m)
    ELSE IF v < 0 THEN Panic(With(m, f, l))
    ELSE Done(Bump(With(m, f, l), f, l, v))

(***************************************************************************)
(* The Record* methods of the Prometheus Metrics, prometheus.go:197-293.   *)
(***************************************************************************)
ErrorTypeLabel(v) == "ErrorType" :> v

PromRecordConnectionAccept(m, success) ==
    IF success
    THEN Done(Bump(m, "connCounter", EmptyLabel, 1))
    ELSE WithInc(m, "connError", ErrorTypeLabel("accept_error"))

PromRecordConnectionCloseInc(m, success) ==
    IF success
    THEN Done(Bump(m, "connCounter", EmptyLabel, 1))
    ELSE WithInc(m, "connError", ErrorTypeLabel("close_error"))

PromRecordConnectionClose(m, success) ==
    IF success
    THEN Done(Bump(m, "connCounter", EmptyLabel, -1))
    ELSE WithInc(m, "connError", ErrorTypeLabel("close_error"))

PromRecordRequest(m, labels) == WithInc(m, "requests", resolveLabels(labels))

PromRecordImps(m, implabels) == WithInc(m, "imps", resolveImpLabels(implabels))

PromRecordLegacyImps(m, labels, numImps) ==
    WithAdd(m, "legacyImps", resolveLabels(labels), numImps)

PromRecordRequestTime(m, labels, length) == WithInc(m, "reqTimer", resolveLabels(labels))

PromRecordAdapterPanic(m, labels) == WithInc(m, "adaptPanics", resolveAdapterLabels(labels))

RECURSIVE IncAdapterErrors(_, _, _)
\* for k := range labels.AdapterErrors { me.adaptErrors.With(...).Inc() }, which a
\* panic ends
IncAdapterErrors(r, labels, errs) ==
    IF errs = {} \/ r.panic
    THEN r
    ELSE LET k == CHOOSE e \in errs : TRUE
         IN  IncAdapterErrors(
                 WithInc(r.m, "adaptErrors", resolveAdapterErrorLabels(labels, k)),
                 labels, errs \ {k})

PromRecordAdapterRequest(m, labels) ==
    IncAdapterErrors(WithInc(m, "adaptRequests", resolveAdapterLabels(labels)),
                     labels, labels.AdapterErrors)

PromRecordAdapterBidReceived(m, labels, bidType, hasAdm) ==
    WithInc(m, "adaptBids", resolveBidLabels(labels, bidType, hasAdm))

PromRecordAdapterPrice(m, labels, cpm) ==
    WithInc(m, "adaptPrices", resolveAdapterLabels(labels))

PromRecordAdapterTime(m, labels, length) ==
    WithInc(m, "adaptTimer", resolveAdapterLabels(labels))

PromRecordCookieSync(m) == Done(Bump(m, "cookieSync", EmptyLabel, 1))

PromRecordAdapterCookieSync(m, adapter, gdprBlocked) ==
    LET l0 == adapterLabel :> adapter
        labels == IF gdprBlocked
                  THEN SetLabel(l0, gdprBlockedLabel, "true")
                  ELSE SetLabel(l0, gdprBlockedLabel, "false")
    IN  WithInc(m, "adaptCookieSync", labels)

PromRecordStoredReqCacheResult(m, cacheResult, inc) ==
    WithAdd(m, "storedReqCacheResult", cacheResultLabel :> cacheResult, inc)

PromRecordStoredImpCacheResult(m, cacheResult, inc) ==
    WithAdd(m, "storedImpCacheResult", cacheResultLabel :> cacheResult, inc)

PromRecordUserIDSet(m, userLabels) ==
    WithInc(m, "userID", resolveUserSyncLabels(userLabels))

\* the method of *Metrics that the call c invokes
PromRecord(m, c) ==
    CASE c.op = "RecordConnectionAccept" -> PromRecordConnectionAccept(m, c.success)
      [] c.op = "RecordConnectionClose" -> PromRecordConnectionClose(m, c.success)
      [] c.op = "RecordRequest" -> PromRecordRequest(m, c.labels)
      [] c.op = "RecordImps" -> PromRecordImps(m, c.labels)
      [] c.op = "RecordLegacyImps" -> PromRecordLegacyImps(m, c.labels, c.num)
      [] c.op = "RecordRequestTime" -> PromRecordRequestTime(m, c.labels, c.num)
      [] c.op = "RecordAdapterPanic" -> PromRecordAdapterPanic(m, c.labels)
      [] c.op = "RecordAdapterRequest" -> PromRecordAdapterRequest(m, c.labels)
      [] c.op = "RecordAdapterBidReceived" ->
            PromRecordAdapterBidReceived(m, c.labels, c.bidType, c.hasAdm)
      [] c.op = "RecordAdapterPrice" -> PromRecordAdapterPrice(m, c.labels, c.num)
      [] c.op = "RecordAdapterTime" -> PromRecordAdapterTime(m, c.labels, c.num)
      [] c.op = "RecordCookieSync" -> PromRecordCookieSync(m)
      [] c.op = "RecordAdapterCookieSync" ->
            PromRecordAdapterCookieSync(m, c.adapter, c.gdprBlocked)
      [] c.op = "RecordStoredReqCacheResult" ->
            PromRecordStoredReqCacheResult(m, c.cacheResult, c.num)
      [] c.op = "RecordStoredImpCacheResult" ->
            PromRecordStoredImpCacheResult(m, c.cacheResult, c.num)
      [] c.op = "RecordUserIDSet" -> PromRecordUserIDSet(m, c.labels)

\* the family a call records to first, and the labels it resolves for it
FamilyOfCall(c) ==
    CASE c.op \in {"RecordConnectionAccept", "RecordConnectionClose"} ->
            IF c.success THEN "connCounter" ELSE "connError"
      [] c.op = "RecordRequest" -> "requests"
      [] c.op = "RecordImps" -> "imps"
      [] c.op = "RecordLegacyImps" -> "legacyImps"
      [] c.op = "RecordRequestTime" -> "reqTimer"
      [] c.op = "RecordAdapterPanic" -> "adaptPanics"
      [] c.op = "RecordAdapterRequest" -> "adaptRequests"
      [] c.op = "RecordAdapterBidReceived" -> "adaptBids"
      [] c.op = "RecordAdapterPrice" -> "adaptPrices"
      [] c.op = "RecordAdapterTime" -> "adaptTimer"
      [] c.op = "RecordCookieSync" -> "cookieSync"
      [] c.op = "RecordAdapterCookieSync" -> "adaptCookieSync"
      [] c.op = "RecordStoredReqCacheResult" -> "storedReqCacheResult"
      [] c.op = "RecordStoredImpCacheResult" -> "storedImpCacheResult"
      [] c.op = "RecordUserIDSet" -> "userID"

(***************************************************************************)
(* The contexts and measurements the callers pass.                         *)
(***************************************************************************)
\* pbsmetrics.Labels with the i-th value of every domain
LabelsAt(i) ==
    [Source |-> demandTypesAsString[i], RType |-> requestTypesAsString[i],
     Browser |-> browserTypesAsString[i], CookieFlag |-> cookieTypesAsString[i],
     RequestStatus |-> requestStatusesAsString[i]]

\* pbsmetrics.AdapterLabels with the i-th value of every domain
AdapterLabelsAt(i, errs) ==
    [Source |-> demandTypesAsString[i], RType |-> requestTypesAsString[i],
     Adapter |-> adaptersAsString[i], Browser |-> browserTypesAsString[i],
     CookieFlag |-> cookieTypesAsString[i], AdapterBids |-> adapterBidsAsString[i],
     AdapterErrors |-> errs]

\* a value that is in no label domain
Unlisted == "unlisted"

\* the zero values Labels{} and AdapterLabels{}
ZeroLabels ==
    [Source |-> "", RType |-> "", Browser |-> "", CookieFlag |-> "", RequestStatus |-> ""]
ZeroAdapterLabels ==
    [Source |-> "", RType |-> "", Adapter |-> "", Browser |-> "", CookieFlag |-> "",
     AdapterBids |-> "", AdapterErrors |-> {}]

LabelsInputs == {LabelsAt(1), LabelsAt(2), ZeroLabels}

AdapterLabelsInputs ==
    {AdapterLabelsAt(1, {}),
     AdapterLabelsAt(2, Range(adapterErrorsAsString)),
     [AdapterLabelsAt(1, {adapterErrorsAsString[1]}) EXCEPT !.Adapter = Unlisted],
     ZeroAdapterLabels}

ImpLabelsInputs ==
    [BannerImps : BOOLEAN, VideoImps : BOOLEAN, AudioImps : BOOLEAN, NativeImps : BOOLEAN]

UserLabelsInputs == [Action : {"add", "gdpr_opt_out"}, Bidder : Range(adaptersAsString)]

\* numImps and inc are Go ints: a negative and a positive one
CountInputs == {-1, 2}
\* a time.Duration, in milliseconds, and a price
DurationInputs == {1500}
CpmInputs == {3}
CacheResultInputs == Range(cacheResultAsString) \cup {Unlisted}

(***************************************************************************)
(* Engine selection, metrics.go:17-66.                                     *)
(***************************************************************************)
Backends == {"GoMetrics", "Prometheus"}

\* cfg.Metrics.Influxdb.Host and cfg.Metrics.Prometheus.Port
InfluxHosts == {"", "influx:8086"}
PrometheusPorts == {0, 9090}

Engine(variant, list, goMetrics, prometheusMetrics) ==
    [variant |-> variant, list |-> list,
     GoMetrics |-> goMetrics, PrometheusMetrics |-> prometheusMetrics]

\* the value of returnEngine before NewMetricsEngine has run
NoEngine == Engine("none", <<>>, FALSE, FALSE)

\* engineList after the two configuration tests: go-metrics first, then Prometheus
EngineList(host, port) ==
    (IF host # "" THEN <<"GoMetrics">> ELSE <<>>) \o
    (IF port # 0 THEN <<"Prometheus">> ELSE <<>>)

\* "Now return the proper metrics engine"
SelectEngineAlwaysMulti(engineList) ==
    IF Len(engineList) >= 1 THEN "Multi" ELSE "Dummy"

SelectEngine(engineList) ==
    IF Len(engineList) > 1 THEN "Multi"
    ELSE IF Len(engineList) = 1 THEN "Single"
    ELSE "Dummy"

\* NewMetricsEngine: the DetailedMetricsEngine for a configuration
NewMetricsEngineOf(host, port) ==
    LET engineList == EngineList(host, port)
    IN  Engine(SelectEngine(engineList), engineList,
               "GoMetrics" \in Range(engineList), "Prometheus" \in Range(engineList))

\* MultiMetricsEngine values built directly from constructed backends
LiteralLists == {<<>>, <<"Prometheus", "GoMetrics">>, <<"GoMetrics", "Prometheus">>}

(***************************************************************************)
(* The other engines.  The go-metrics backend (pbsmetrics.Metrics) is an   *)
(* accumulating sink: it is represented by the number of updates it has    *)
(* received.  The DummyMetricsEngine has no state.                         *)
(***************************************************************************)
\* a method of pbsmetrics.Metrics: one update of the go-metrics registry
GoMetricsRecord(a, c) == [a EXCEPT !["GoMetrics"] = @ + 1]

DummyRecordCounting(a, c) == [a EXCEPT !["GoMetrics"] = @ + 1]

\* a method of DummyMetricsEngine: a noop
DummyRecord(a, c) == a

ThisMEReversed(list, i) == list[Len(list) + 1 - i]

\* for _, thisME := range *me: the i-th engine of the loop
ThisME(list, i) == list[i]

(***************************************************************************)
(* State.                                                                  *)
(***************************************************************************)
VARIABLES
    pc,        \* "start", "ready", "calling", "returned", "panicked"
    cfg,       \* how the engine was built, and from which configuration
    engine,    \* the DetailedMetricsEngine
    series,    \* the Prometheus Metrics: family -> (label assignment -> value)
    applied,   \* per backend, the number of updates it has completed
    call,      \* the recording call in progress, or the last one
    idx,       \* position of the fan-out loop in the engine list
    callLog,   \* the backends whose update of the current call has completed, in order
    failed,    \* the backend whose update of the current call panicked, or "none"
    nCalls,    \* number of recording calls begun
    dimsAll,   \* SpecDim: the dimensions to expand
    todo,      \* SpecDim: the dimensions not expanded yet
    labels,    \* SpecDim: the slice of label assignments
    reg,       \* SpecReg: NewMetrics in progress: position, declarations, registry
    pre,       \* SpecPrefix: the label maps in memory and the slices that refer to them
    workers,   \* SpecConc: per worker, its recording call and the position of its loop
    cache,     \* SpecCache: a PutJson call on the prebid cache client
    har,       \* SpecHarness: a run of the JSON bidder test harness
    conn       \* SpecConn: the connection events recorded on a Prometheus Metrics

mainVars == <<pc, cfg, engine, series, applied, call, idx, callLog, failed, nCalls>>
dimVars == <<dimsAll, todo, labels>>
auxVars == <<reg, pre, workers, cache, har, conn>>
vars == <<pc, cfg, engine, series, applied, call, idx, callLog, failed, nCalls,
          dimsAll, todo, labels, reg, pre, workers, cache, har, conn>>

NoCall == [op |-> "none"]
NoCfg == [via |-> "none", host |-> "", port |-> 0]

MainInit ==
    /\ pc = "start"
    /\ cfg = NoCfg
    /\ engine = NoEngine
    /\ series = NoMetrics
    /\ applied = [b \in Backends |-> 0]
    /\ call = NoCall
    /\ idx = 0
    /\ callLog = <<>>
    /\ failed = "none"
    /\ nCalls = 0

DimIdle ==
    /\ dimsAll = <<>>
    /\ todo = <<>>
    /\ labels = NoLabels

\* no NewMetrics call, no shared label maps, no worker, no cache call, no harness run
NoReg == [pc |-> "idle"]
NoPre == [pc |-> "idle"]
NoWorkers == <<>>
NoCache == [pc |-> "idle"]
NoHar == [pc |-> "idle"]
NoConn == [pc |-> "idle"]

AuxIdle ==
    /\ reg = NoReg
    /\ pre = NoPre
    /\ workers = NoWorkers
    /\ cache = NoCache
    /\ har = NoHar
    /\ conn = NoConn

Init == MainInit /\ DimIdle /\ AuxIdle

(***************************************************************************)
(* Construction.                                                           *)
(***************************************************************************)
NewMetricsEngine ==
    /\ pc = "start"
    /\ \E host \in InfluxHosts, port \in PrometheusPorts :
          /\ cfg' = [via |-> "NewMetricsEngine", host |-> host, port |-> port]
          /\ engine' = NewMetricsEngineOf(host, port)
          /\ series' = IF port # 0 THEN NewMetrics ELSE NoMetrics
    /\ pc' = "ready"
    /\ UNCHANGED <<applied, call, idx, callLog, failed, nCalls, dimVars, auxVars>>

\* a MultiMetricsEngine{...} over freshly constructed backends
NewMultiMetricsEngine ==
    /\ pc = "start"
    /\ \E list \in LiteralLists :
          /\ cfg' = [via |-> "MultiMetricsEngine", host |-> "", port |-> 0]
          /\ engine' = Engine("Multi", list, "GoMetrics" \in Range(list),
                              "Prometheus" \in Range(list))
          /\ series' = IF "Prometheus" \in Range(list) THEN NewMetrics ELSE NoMetrics
    /\ pc' = "ready"
    /\ UNCHANGED <<applied, call, idx, callLog, failed, nCalls, dimVars, auxVars>>

(***************************************************************************)
(* A recording call on the engine: the caller invokes a method of the      *)
(* MetricsEngine interface; the engine's method runs to its end or to a    *)
(* panic.                                                                  *)
(***************************************************************************)
Begin(c) ==
    /\ pc \in {"ready", "returned", "panicked"}
    /\ nCalls < MaxCalls
    /\ nCalls' = nCalls + 1
    /\ call' = c
    /\ idx' = 1
    /\ callLog' = <<>>
    /\ failed' = "none"
    /\ pc' = "calling"
    /\ UNCHANGED <<cfg, engine, series, applied, dimVars, auxVars>>

RecordConnectionAccept ==
    \E success \in BOOLEAN : Begin([op |-> "RecordConnectionAccept", success |-> success])

RecordConnectionClose ==
    \E success \in BOOLEAN : Begin([op |-> "RecordConnectionClose", success |-> success])

RecordRequest ==
    \E l \in LabelsInputs : Begin([op |-> "RecordRequest", labels |-> l])

RecordImps ==
    \E l \in ImpLabelsInputs : Begin([op |-> "RecordImps", labels |-> l])

RecordLegacyImps ==
    \E l \in LabelsInputs, numImps \in CountInputs :
        Begin([op |-> "RecordLegacyImps", labels |-> l, num |-> numImps])

RecordRequestTime ==
    \E l \in LabelsInputs, length \in DurationInputs :
        Begin([op |-> "RecordRequestTime", labels |-> l, num |-> length])

RecordAdapterPanic ==
    \E l \in AdapterLabelsInputs : Begin([op |-> "RecordAdapterPanic", labels |-> l])

RecordAdapterRequest ==
    \E l \in AdapterLabelsInputs : Begin([op |-> "RecordAdapterRequest", labels |-> l])

RecordAdapterBidReceived ==
    \E l \in AdapterLabelsInputs, bidType \in Range(bidTypesAsString), hasAdm \in BOOLEAN :
        Begin([op |-> "RecordAdapterBidReceived", labels |-> l, bidType |-> bidType,
               hasAdm |-> hasAdm])

RecordAdapterPrice ==
    \E l \in AdapterLabelsInputs, cpm \in CpmInputs :
        Begin([op |-> "RecordAdapterPrice", labels |-> l, num |-> cpm])

RecordAdapterTime ==
    \E l \in AdapterLabelsInputs, length \in DurationInputs :
        Begin([op |-> "RecordAdapterTime", labels |-> l, num |-> length])

RecordCookieSync == Begin([op |-> "RecordCookieSync"])

RecordAdapterCookieSync ==
    \E adapter \in Range(adaptersAsString) \cup {Unlisted}, gdprBlocked \in BOOLEAN :
        Begin([op |-> "RecordAdapterCookieSync", adapter |-> adapter,
               gdprBlocked |-> gdprBlocked])

RecordStoredReqCacheResult ==
    \E cacheResult \in CacheResultInputs, inc \in CountInputs :
        Begin([op |-> "RecordStoredReqCacheResult", cacheResult |-> cacheResult,
               num |-> inc])

RecordStoredImpCacheResult ==
    \E cacheResult \in CacheResultInputs, inc \in CountInputs :
        Begin([op |-> "RecordStoredImpCacheResult", cacheResult |-> cacheResult,
               num |-> inc])

RecordUserIDSet ==
    \E l \in UserLabelsInputs : Begin([op |-> "RecordUserIDSet", labels |-> l])

\* DummyMetricsEngine: the method is a noop and returns
DummyCall ==
    /\ pc = "calling"
    /\ engine.variant = "Dummy"
    /\ applied' = DummyRecord(applied, call)
    /\ pc' = "returned"
    /\ UNCHANGED <<cfg, engine, series, call, idx, callLog, failed, nCalls, dimVars, auxVars>>

\* one iteration of "for _, thisME := range *me { thisME.Record...(...) }"; with a
\* single backend the engine is the backend itself and the call is this one update.
\* A panic of the update unwinds the loop and the caller.
Forward ==
    /\ pc = "calling"
    /\ engine.variant \in {"Single", "Multi"}
    /\ idx <= Len(engine.list)
    /\ LET thisME == ThisME(engine.list, idx)
           r == IF thisME = "Prometheus" THEN PromRecord(series, call) ELSE Done(series)
       IN  /\ series' = r.m
           /\ IF r.panic
              THEN /\ pc' = "panicked"
                   /\ failed' = thisME
                   /\ UNCHANGED <<applied, idx, callLog>>
              ELSE /\ applied' = IF thisME = "GoMetrics"
                                 THEN GoMetricsRecord(applied, call)
                                 ELSE [applied EXCEPT ![thisME] = @ + 1]
                   /\ callLog' = Append(callLog, thisME)
                   /\ idx' = idx + 1
                   /\ UNCHANGED <<pc, failed>>
    /\ UNCHANGED <<cfg, engine, call, nCalls, dimVars, auxVars>>

\* the loop is over: the method returns to the caller
Return ==
    /\ pc = "calling"
    /\ engine.variant \in {"Single", "Multi"}
    /\ idx > Len(engine.list)
    /\ pc' = "returned"
    /\ UNCHANGED <<cfg, engine, series, applied, call, idx, callLog, failed, nCalls, dimVars, auxVars>>

Next ==
    \/ NewMetricsEngine
    \/ NewMultiMetricsEngine
    \/ RecordConnectionAccept
    \/ RecordConnectionClose
    \/ RecordRequest
    \/ RecordImps
    \/ RecordLegacyImps
    \/ RecordRequestTime
    \/ RecordAdapterPanic
    \/ RecordAdapterRequest
    \/ RecordAdapterBidReceived
    \/ RecordAdapterPrice
    \/ RecordAdapterTime
    \/ RecordCookieSync
    \/ RecordAdapterCookieSync
    \/ RecordStoredReqCacheResult
    \/ RecordStoredImpCacheResult
    \/ RecordUserIDSet
    \/ DummyCall
    \/ Forward
    \/ Return

Spec == Init /\ [][Next]_vars

(***************************************************************************)
(* SpecDim: a chain of addDimension calls on arbitrary dimensions, as      *)
(* initializeTimeSeries makes them: labels starts as the empty slice and   *)
(* is replaced by addDimension(labels, name, values) once per dimension.   *)
(***************************************************************************)
DimNamePool == <<"d1", "d2", "d3", "d4", "d5">>
DimValuePool == <<"a", "b", "c", "d">>

\* the dimension lists of at most MaxDims dimensions, the i-th named DimNamePool[i],
\* with the first 0..MaxDomain values of the pool as its domain
DimLists ==
    UNION {
        {[i \in 1..n |-> Dim(DimNamePool[i], SubSeq(DimValuePool, 1, size[i]))] :
            size \in [1..n -> 0..MaxDomain]} :
        n \in 0..MaxDims}

InitDim ==
    /\ MainInit
    /\ AuxIdle
    /\ dimsAll \in DimLists
    /\ todo = dimsAll
    /\ labels = NoLabels

AddDimension ==
    /\ todo # <<>>
    /\ labels' = addDimension(labels, Head(todo).name, Head(todo).values)
    /\ todo' = Tail(todo)
    /\ UNCHANGED <<dimsAll, mainVars, auxVars>>

NextDim == AddDimension

SpecDim == InitDim /\ [][NextDim]_vars

\* the dimensions expanded so far
DimsDone == SubSeq(dimsAll, 1, Len(dimsAll) - Len(todo))

RECURSIVE Product(_)
\* the product of the domain sizes of a list of dimensions
Product(dims) ==
    IF dims = <<>> THEN 1 ELSE Len(Head(dims).values) * Product(Tail(dims))

\* the position of the last dimension with an empty domain, 0 when there is none
LastEmpty(dims) ==
    LET empties == {i \in 1..Len(dims) : dims[i].values = <<>>}
    IN  IF empties = {} THEN 0 ELSE CHOOSE i \in empties : \A j \in empties : j <= i

\* the dimensions after the last one with an empty domain
AfterLastEmpty(dims) == SubSeq(dims, LastEmpty(dims) + 1, Len(dims))

DeclaredDomains ==
    ("ErrorType" :> {"accept_error", "close_error"}) @@
    (demandSourceLabel :> Range(demandTypesAsString)) @@
    (requestTypeLabel :> Range(requestTypesAsString)) @@
    (browserLabel :> Range(browserTypesAsString)) @@
    (cookieLabel :> Range(cookieTypesAsString)) @@
    (responseStatusLabel :> Range(requestStatusesAsString)) @@
    (adapterLabel :> Range(adaptersAsString)) @@
    (adapterBidLabel :> Range(adapterBidsAsString)) @@
    (bidTypeLabel :> Range(bidTypesAsString)) @@
    (markupTypeLabel :> {"unknown", "adm"}) @@
    (adapterErrLabel :> Range(adapterErrorsAsString)) @@
    (gdprBlockedLabel :> {"true", "false"}) @@
    (cacheResultLabel :> Range(cacheResultAsString)) @@
    (bannerLabel :> {"yes", "no"}) @@ (videoLabel :> {"yes", "no"}) @@
    (audioLabel :> {"yes", "no"}) @@ (nativeLabel :> {"yes", "no"})

\* the assignment a is in the cartesian product of the declared domains of family f
InProduct(f, a) ==
    /\ DOMAIN a = LabelNamesOf(f)
    /\ \A k \in DOMAIN a : k \in DOMAIN DeclaredDomains /\ a[k] \in DeclaredDomains[k]

\* the labels a call resolves for the family it records to first
LabelsOfCall(c) ==
    CASE c.op = "RecordConnectionAccept" ->
            IF c.success THEN EmptyLabel ELSE ErrorTypeLabel("accept_error")
      [] c.op = "RecordConnectionClose" ->
            IF c.success THEN EmptyLabel ELSE ErrorTypeLabel("close_error")
      [] c.op \in {"RecordRequest", "RecordLegacyImps", "RecordRequestTime"} ->
            resolveLabels(c.labels)
      [] c.op = "RecordImps" -> resolveImpLabels(c.labels)
      [] c.op \in {"RecordAdapterPanic", "RecordAdapterRequest", "RecordAdapterPrice",
                   "RecordAdapterTime"} -> resolveAdapterLabels(c.labels)
      [] c.op = "RecordAdapterBidReceived" -> resolveBidLabels(c.labels, c.bidType, c.hasAdm)
      [] c.op = "RecordCookieSync" -> EmptyLabel
      [] c.op = "RecordAdapterCookieSync" ->
            (adapterLabel :> c.adapter) @@
            (gdprBlockedLabel :> IF c.gdprBlocked THEN "true" ELSE "false")
      [] c.op \in {"RecordStoredReqCacheResult", "RecordStoredImpCacheResult"} ->
            cacheResultLabel :> c.cacheResult
      [] c.op = "RecordUserIDSet" -> resolveUserSyncLabels(c.labels)

\* every <<family, assignment>> a call addresses
SeriesOfCall(c) ==
    {<<FamilyOfCall(c), LabelsOfCall(c)>>} \cup
    (IF c.op = "RecordAdapterRequest"
     THEN {<<"adaptErrors", resolveAdapterErrorLabels(c.labels, k)>> :
              k \in c.labels.AdapterErrors}
     ELSE {})

\* the update of the call in progress is about to run on the Prometheus backend
PrometheusIsNext ==
    /\ pc = "calling"
    /\ engine.variant \in {"Single", "Multi"}
    /\ idx <= Len(engine.list)
    /\ ThisME(engine.list, idx) = "Prometheus"

(***************************************************************************)
(* C1: after NewMetrics, a recording call whose label assignment lies in   *)
(* the cartesian product of its family's declared domains creates no new   *)
(* time series: every family has the same series before and after it.      *)
(* Stated for the calls that return normally.                              *)
(***************************************************************************)
C1_NoNewSeries ==
    [][(/\ PrometheusIsNext
        /\ ~PromRecord(series, call).panic
        /\ \A t \in SeriesOfCall(call) : InProduct(t[1], t[2]))
       => \A f \in FamilyFields :
             Cardinality(DOMAIN series'[f]) = Cardinality(DOMAIN series[f])]_vars

(***************************************************************************)
(* C3: a call through a MultiMetricsEngine of two backends leaves exactly  *)
(* one update on each backend, in either order of the list; through one    *)
(* with no backend it changes nothing and raises no error.                 *)
(***************************************************************************)
CallOver == pc \in {"returned", "panicked"}

C3_FanOutFidelity ==
    (engine.variant = "Multi" /\ CallOver /\ nCalls = 1) =>
        /\ failed = "none"
        /\ \A b \in Backends :
              applied[b] = IF b \in Range(engine.list) THEN 1 ELSE 0
        /\ engine.list = <<>> => series = NoMetrics

(***************************************************************************)
(* C4: in a MultiMetricsEngine call, a panic inside one backend's update   *)
(* does not reach the caller and does not keep the call from the other     *)
(* backends of the list.                                                   *)
(***************************************************************************)
C4_PanicIsolated ==
    (engine.variant = "Multi" /\ failed # "none") =>
        /\ pc # "panicked"
        /\ pc = "returned" =>
              \A b \in Range(engine.list) \ {failed} : b \in Range(callLog)

(***************************************************************************)
(* C5: NewMetricsEngine picks the engine by the number of active backends  *)
(* (go-metrics iff Influxdb.Host is not empty, Prometheus iff the port is  *)
(* not zero): none gives the DummyMetricsEngine, one gives that backend    *)
(* itself, more than one the MultiMetricsEngine over all of them.          *)
(***************************************************************************)
ActiveBackends(c) ==
    (IF c.host # "" THEN {"GoMetrics"} ELSE {}) \cup
    (IF c.port # 0 THEN {"Prometheus"} ELSE {})

C5_EngineByBackendCount ==
    cfg.via = "NewMetricsEngine" =>
        LET active == ActiveBackends(cfg)
        IN  /\ engine.GoMetrics = ("GoMetrics" \in active)
            /\ engine.PrometheusMetrics = ("Prometheus" \in active)
            /\ (series # NoMetrics) = ("Prometheus" \in active)
            /\ Range(engine.list) = active
            /\ Len(engine.list) = Cardinality(active)
            /\ engine.variant = CASE Cardinality(active) = 0 -> "Dummy"
                                  [] Cardinality(active) = 1 -> "Single"
                                  [] OTHER -> "Multi"
            \* a call on the single backend is that backend's update and nothing more
            /\ (engine.variant = "Single" /\ pc = "returned") => callLog = engine.list

C5_Witness ==
    /\ cfg.via = "NewMetricsEngine"
    /\ cfg.host = ""
    /\ cfg.port # 0
    /\ engine.variant = "Single"
    /\ pc = "returned"
    /\ applied["Prometheus"] = 1

(***************************************************************************)
(* C6: every operation of the DummyMetricsEngine returns without error and *)
(* changes no state, whatever the context.                                 *)
(***************************************************************************)
C6_DummyNoop ==
    [][(engine.variant = "Dummy" /\ pc = "calling")
       => /\ pc' = "returned"
          /\ failed' = "none"
          /\ series' = series
          /\ applied' = applied
          /\ engine' = engine]_vars

C6_Witness ==
    /\ engine.variant = "Dummy"
    /\ pc = "returned"
    /\ call.op = "RecordAdapterRequest"
    /\ call.labels = ZeroAdapterLabels

(***************************************************************************)
(* C7: a MultiMetricsEngine forwards a call to its backends one after the  *)
(* other in the order of the list, which NewMetricsEngine builds as        *)
(* go-metrics before Prometheus; when the call returns all of them have    *)
(* been updated.                                                           *)
(***************************************************************************)
C7_ForwardInOrder ==
    engine.variant = "Multi" =>
        /\ Len(callLog) <= Len(engine.list)
        /\ callLog = SubSeq(engine.list, 1, Len(callLog))
        /\ pc = "calling" => Len(callLog) = idx - 1
        /\ pc = "returned" => callLog = engine.list
        /\ (cfg.via = "NewMetricsEngine") => engine.list = <<"GoMetrics", "Prometheus">>

C7_Witness ==
    /\ engine.variant = "Multi"
    /\ cfg.via = "NewMetricsEngine"
    /\ pc = "returned"
    /\ callLog = <<"GoMetrics", "Prometheus">>

YesNo(b) == IF b THEN "yes" ELSE "no"

ImpAssignment(l) ==
    [banner |-> YesNo(l.BannerImps), video |-> YesNo(l.VideoImps),
     audio |-> YesNo(l.AudioImps), native |-> YesNo(l.NativeImps)]

C9_ImpLabels ==
    /\ pc = "ready" =>
          /\ \A l \in ImpLabelsInputs : resolveImpLabels(l) = ImpAssignment(l)
          /\ Cardinality({resolveImpLabels(l) : l \in ImpLabelsInputs}) = 16
          /\ engine.PrometheusMetrics =>
                DOMAIN series["imps"] = {resolveImpLabels(l) : l \in ImpLabelsInputs}
    /\ engine.PrometheusMetrics => Cardinality(DOMAIN series["imps"]) = 16
    /\ (call.op = "RecordImps" /\ "Prometheus" \in Range(callLog)) =>
          series["imps"][ImpAssignment(call.labels)] >= 1

C9_Witness ==
    /\ pc = "returned"
    /\ call.op = "RecordImps"
    /\ call.labels = [BannerImps |-> TRUE, VideoImps |-> TRUE, AudioImps |-> TRUE,
                      NativeImps |-> TRUE]
    /\ "Prometheus" \in Range(callLog)
    /\ series["imps"][[banner |-> "yes", video |-> "yes", audio |-> "yes",
                       native |-> "yes"]] = 1

(***************************************************************************)
(* C10: for a bid-received event the markup_type label depends on the      *)
(* payload flag alone: "adm" when there is a payload and "unknown" when    *)
(* not, for every adapter context and bid type, the other labels being     *)
(* the same for both; both values are pre-created for the adaptBids        *)
(* family, so that the event of a listed adapter finds its series.         *)
(***************************************************************************)
\* every adapter context within the declared domains
AllAdapterLabels ==
    [Source : Range(demandTypesAsString), RType : Range(requestTypesAsString),
     Adapter : Range(adaptersAsString), Browser : Range(browserTypesAsString),
     CookieFlag : Range(cookieTypesAsString), AdapterBids : Range(adapterBidsAsString),
     AdapterErrors : {{}}]

MarkupOf(hasAdm) == IF hasAdm THEN "adm" ELSE "unknown"

C10_MarkupType ==
    /\ pc = "ready" =>
          \A l \in AllAdapterLabels \cup AdapterLabelsInputs,
             bidType \in Range(bidTypesAsString), hasAdm \in BOOLEAN :
             LET a == resolveBidLabels(l, bidType, hasAdm)
             IN  /\ DOMAIN a = Range(bidLabelNames)
                 /\ a[markupTypeLabel] = MarkupOf(hasAdm)
                 /\ \A k \in (DOMAIN a) \ {markupTypeLabel} :
                       a[k] = resolveBidLabels(l, bidType, ~hasAdm)[k]
                 /\ (engine.PrometheusMetrics /\ l \in AllAdapterLabels) =>
                       a \in DOMAIN series["adaptBids"]
    /\ (call.op = "RecordAdapterBidReceived" /\ "Prometheus" \in Range(callLog)) =>
          \E a \in DOMAIN series["adaptBids"] :
             /\ a[markupTypeLabel] = MarkupOf(call.hasAdm)
             /\ a[bidTypeLabel] = call.bidType
             /\ a[adapterLabel] = call.labels.Adapter
             /\ series["adaptBids"][a] >= 1

C10_Witness ==
    /\ pc = "returned"
    /\ call.op = "RecordAdapterBidReceived"
    /\ call.hasAdm
    /\ call.labels.Adapter \in Range(adaptersAsString)
    /\ "Prometheus" \in Range(callLog)
    /\ Cardinality(DOMAIN series["adaptBids"]) = 256
    /\ \E a \in DOMAIN series["adaptBids"] :
          a[markupTypeLabel] = "adm" /\ series["adaptBids"][a] = 1

(***************************************************************************)
(* The <<family, assignment>> pairs that differ between two states of the  *)
(* Metrics: a series that is new in t, or whose value is not the one in s. *)
(***************************************************************************)
Changed(s, t) ==
    UNION {{<<f, a>> : a \in {b \in DOMAIN t[f] :
                                 b \notin DOMAIN s[f] \/ s[f][b] # t[f][b]}} :
           f \in FamilyFields}

(***************************************************************************)
(* C11: a recording call on the Prometheus Metrics changes exactly one     *)
(* time series, the one of the call's family at the call's label           *)
(* assignment, and leaves every other series of every family as it was;    *)
(* RecordAdapterRequest changes the adapter-requests series and one        *)
(* adapter-errors series for each error kind of the context.               *)
(***************************************************************************)
C11_ExactlyOneSeries ==
    [][PrometheusIsNext =>
          /\ Changed(series, series') = SeriesOfCall(call)
          /\ call.op # "RecordAdapterRequest" =>
                Cardinality(Changed(series, series')) = 1]_vars

(***************************************************************************)
(* SpecReg: NewMetrics step by step.  Each family is constructed and       *)
(* handed to Registry.MustRegister, in the order of the declarations; then *)
(* initializeTimeSeries runs; then the Metrics value is returned, and only *)
(* then can a caller record on it.  The declarations are those of          *)
(* NewMetrics, and the lists that differ from them in one exported name,   *)
(* which is that of an earlier family.  Bucket edges are in hundredths.    *)
(***************************************************************************)
LinearBucketsFromZero(start, width, count) == [i \in 1..count |-> (i - 1) * width]

\* prometheus.LinearBuckets: count edges, the first at start, each width after the last
LinearBuckets(start, width, count) == [i \in 1..count |-> start + (i - 1) * width]

\* LinearBuckets(0.05, 0.05, 20) and the appended 1.5, 2.0, 3.0, 5.0, 20.0, 50.0
timerBuckets == LinearBuckets(5, 5, 20) \o <<150, 200, 300, 500, 2000, 5000>>

\* the buckets argument of newHistogram, none for the other kinds
BucketsOf(field) ==
    CASE field \in {"reqTimer", "adaptTimer"} -> timerBuckets
      [] field = "adaptPrices" -> LinearBuckets(10, 10, 200)
      [] OTHER -> <<>>

\* cfg.Namespace and cfg.Subsystem
PrometheusCfgInputs ==
    {[Namespace |-> "", Subsystem |-> ""], [Namespace |-> "prebid", Subsystem |-> "server"]}

\* cfg.Metrics.Disabled, as the exported names of the families to leave out
DisabledInputs == {{}, {"adapter_prices"}, {"legacy_imps_requested", "setuid_calls"}}

\* the fully qualified name of the Opts: the non-empty parts of namespace, subsystem, name
FQName(c, name) ==
    LET NonEmpty(x) == x # ""
    IN  SelectSeq(<<c.Namespace, c.Subsystem, name>>, NonEmpty)

\* the descriptor of the collector that newConnCounter, newCookieSync, newCounter or
\* newHistogram builds for a declaration
Desc(c, fam) ==
    [fqName |-> FQName(c, fam.name), kind |-> fam.kind, labelNames |-> fam.labelNames,
     buckets |-> BucketsOf(fam.field)]

Registered(registry, desc) == [registry |-> registry @@ (desc.fqName :> desc), panic |-> FALSE]

MustRegisterKeepsFirst(registry, desc) == Registered(registry, desc)

\* Registry.MustRegister: panics when a collector of the same fully qualified name is
\* registered already
MustRegister(registry, desc) ==
    IF desc.fqName \in DOMAIN registry
    THEN [registry |-> registry, panic |-> TRUE]
    ELSE Registered(registry, desc)

AfterRegistrationReturn == "initialized"

\* what NewMetrics does after the last MustRegister: initializeTimeSeries(&metrics)
AfterRegistration == "initializing"

\* the declarations with the exported name of the i-th given to the j-th as well
WithNameOf(decl, i, j) == [decl EXCEPT ![j].name = decl[i].name]

DeclInputs ==
    {Families} \cup
    {WithNameOf(Families, p[1], p[2]) :
        p \in {q \in (1..Len(Families)) \X (1..Len(Families)) : q[1] < q[2]}}

\* the recording calls made on the returned Metrics
RegCallInputs ==
    {[op |-> "RecordRequest", labels |-> LabelsAt(1)],
     [op |-> "RecordRequestTime", labels |-> LabelsAt(2), num |-> 1500],
     [op |-> "RecordAdapterPrice", labels |-> AdapterLabelsAt(1, {}), num |-> 3],
     [op |-> "RecordCookieSync"]}

InitReg ==
    /\ MainInit
    /\ DimIdle
    /\ pre = NoPre
    /\ workers = NoWorkers
    /\ cache = NoCache
    /\ har = NoHar
    /\ conn = NoConn
    /\ \E decl \in DeclInputs, c \in PrometheusCfgInputs, d \in DisabledInputs :
          reg = [pc |-> "registering", decl |-> decl, cfg |-> c, disabled |-> d,
                 idx |-> 1, registry |-> [n \in {} |-> 0]]

\* metrics.<field> = new...(cfg, ...); metrics.Registry.MustRegister(metrics.<field>)
Register ==
    /\ reg.pc = "registering"
    /\ LET fam == reg.decl[reg.idx]
           r == MustRegister(reg.registry, Desc(reg.cfg, fam))
       IN  /\ series' = series @@ (fam.field :> NewCollector(fam))
           /\ reg' = IF r.panic
                     THEN [reg EXCEPT !.pc = "panicked"]
                     ELSE [reg EXCEPT !.registry = r.registry,
                                      !.idx = @ + 1,
                                      !.pc = IF reg.idx = Len(reg.decl)
                                             THEN AfterRegistration
                                             ELSE "registering"]
    /\ UNCHANGED <<pc, cfg, engine, applied, call, idx, callLog, failed, nCalls,
                   dimVars, pre, workers, cache, har, conn>>

\* initializeTimeSeries(&metrics)
InitializeTimeSeries ==
    /\ reg.pc = "initializing"
    /\ series' = initializeTimeSeries(series)
    /\ reg' = [reg EXCEPT !.pc = "initialized"]
    /\ UNCHANGED <<pc, cfg, engine, applied, call, idx, callLog, failed, nCalls,
                   dimVars, pre, workers, cache, har, conn>>

\* return &metrics
ReturnMetrics ==
    /\ reg.pc = "initialized"
    /\ reg' = [reg EXCEPT !.pc = "returned"]
    /\ UNCHANGED <<mainVars, dimVars, pre, workers, cache, har, conn>>

\* a caller that holds the returned *Metrics records on it
RecordOnMetrics ==
    /\ reg.pc = "returned"
    /\ nCalls < MaxCalls
    /\ \E c \in RegCallInputs :
          LET r == PromRecord(series, c)
          IN  /\ series' = r.m
              /\ call' = c
              /\ failed' = IF r.panic THEN "Prometheus" ELSE "none"
    /\ nCalls' = nCalls + 1
    /\ UNCHANGED <<pc, cfg, engine, applied, idx, callLog, dimVars, auxVars>>

NextReg ==
    \/ Register
    \/ InitializeTimeSeries
    \/ ReturnMetrics
    \/ RecordOnMetrics

SpecReg == InitReg /\ [][NextReg]_vars

\* the position of the first declaration whose exported name an earlier declaration
\* has too, 0 when the names are pairwise distinct
FirstDuplicate(decl) ==
    LET d == {j \in 1..Len(decl) : \E i \in 1..(j - 1) : decl[i].name = decl[j].name}
    IN  IF d = {} THEN 0 ELSE CHOOSE j \in d : \A k \in d : j <= k

(***************************************************************************)
(* C12: when two declared families have the same exported name, NewMetrics *)
(* panics in MustRegister at the second of them: it never gets past that   *)
(* declaration, never runs initializeTimeSeries and never returns a        *)
(* Metrics value, so that no recording call is ever made on it; and        *)
(* NewMetrics panics in no other case.                                     *)
(***************************************************************************)
C12_DuplicateNameFatal ==
    [][LET d == FirstDuplicate(reg.decl)
       IN  /\ d # 0 =>
                /\ (reg.pc = "registering" /\ reg.idx = d) => reg'.pc = "panicked"
                /\ reg'.pc \in {"registering", "panicked"}
                /\ reg'.idx <= d
                /\ nCalls' = 0
                /\ failed' = "none"
           /\ reg'.pc = "panicked" => (d # 0 /\ reg'.idx = d)]_vars

C12_Witness ==
    /\ reg.pc = "panicked"
    /\ reg.idx = Len(Families)
    /\ reg.decl[reg.idx].name = reg.decl[1].name
    /\ nCalls = 0

(***************************************************************************)
(* C13: when NewMetrics has returned, the families registered are the      *)
(* declared families whose exported name is not in the disabled set: a     *)
(* disabled family is neither constructed nor registered, every other one  *)
(* is both.                                                                *)
(***************************************************************************)
C13_DisabledNotRegistered ==
    reg.pc = "returned" =>
        \A i \in 1..Len(reg.decl) :
            LET fam == reg.decl[i]
            IN  /\ (FQName(reg.cfg, fam.name) \in DOMAIN reg.registry)
                      <=> (fam.name \notin reg.disabled)
                /\ (fam.field \in DOMAIN series) <=> (fam.name \notin reg.disabled)

HasDeclaredDomains(f) == LabelNamesOf(f) \subseteq DOMAIN DeclaredDomains

\* every series the call addresses lies within the declared domains of its family
InDomain(c) == \A t \in SeriesOfCall(c) : InProduct(t[1], t[2])

\* the call addresses a family with declared domains at a value outside them
OutOfDomain(c) ==
    \E t \in SeriesOfCall(c) : HasDeclaredDomains(t[1]) /\ ~InProduct(t[1], t[2])

(***************************************************************************)
(* C15: no recording call on the Prometheus Metrics fails: for a context   *)
(* within the declared domains and any numeric argument, the call returns  *)
(* normally, without a panic, and the series it updates existed before the *)
(* call.                                                                   *)
(***************************************************************************)
C15_RecordNeverFails ==
    [][(PrometheusIsNext /\ InDomain(call)) =>
          /\ pc' # "panicked"
          /\ failed' = "none"
          /\ \A t \in SeriesOfCall(call) : t[2] \in DOMAIN series[t[1]]]_vars

(***************************************************************************)
(* C16: a recording call with a label value outside the declared domain    *)
(* (an adapter that is not in the bidder list, an unlisted cache result)   *)
(* raises nothing to the caller and is dropped: it creates no series and   *)
(* changes none.                                                           *)
(***************************************************************************)
C16_OutOfDomainDropped ==
    [][(PrometheusIsNext /\ OutOfDomain(call)) =>
          /\ pc' # "panicked"
          /\ failed' = "none"
          /\ series' = series]_vars

(***************************************************************************)
(* SpecPrefix: the part of initializeTimeSeries that reuses expanded       *)
(* prefixes (prometheus.go:385-416), on label maps that live in memory.    *)
(* A prometheus.Labels value is a reference to a map: pre.heap is the      *)
(* sequence of the maps allocated so far and a slice of labels is a        *)
(* sequence of positions in it, so that two slices can share a map and a   *)
(* write through one shows through the other.  The domain of each          *)
(* dimension that a function outside this file supplies is the first one   *)
(* or two values of its stand-in.                                          *)
(***************************************************************************)
\* the values initializeTimeSeries gives each dimension, by label name
DeclaredValues ==
    ("ErrorType" :> <<"accept_error", "close_error">>) @@
    (demandSourceLabel :> demandTypesAsString) @@
    (requestTypeLabel :> requestTypesAsString) @@
    (browserLabel :> browserTypesAsString) @@
    (cookieLabel :> cookieTypesAsString) @@
    (responseStatusLabel :> requestStatusesAsString) @@
    (adapterLabel :> adaptersAsString) @@
    (adapterBidLabel :> adapterBidsAsString) @@
    (bidTypeLabel :> bidTypesAsString) @@
    (markupTypeLabel :> <<"unknown", "adm">>) @@
    (adapterErrLabel :> adapterErrorsAsString) @@
    (gdprBlockedLabel :> <<"true", "false">>) @@
    (cacheResultLabel :> cacheResultAsString) @@
    (bannerLabel :> <<"yes", "no">>) @@ (videoLabel :> <<"yes", "no">>) @@
    (audioLabel :> <<"yes", "no">>) @@ (nativeLabel :> <<"yes", "no">>)

\* the assignments of family f when its full list of dimensions is expanded on its
\* own, in the order of its label names
EnumerateFamily(values, f) ==
    LET names == FamilyOf(f).labelNames
    IN  Range(Expand([i \in 1..Len(names) |-> Dim(names[i], values[names[i]])]))

copyLabelShared(heap, ref) == [heap |-> heap, ref |-> ref]

\* copyLabel: a new map with the entries of the map at ref
copyLabelAt(heap, ref) == [heap |-> Append(heap, copyLabel(heap[ref])), ref |-> Len(heap) + 1]

RECURSIVE addToLabelAt(_, _, _, _)
\* addToLabel: for each value, l := copyLabel(label); l[field] = v; the references
\* come first in the result, as the loop goes from the first value to the last
addToLabelAt(heap, ref, field, values) ==
    IF values = <<>>
    THEN [heap |-> heap, refs |-> <<>>]
    ELSE LET c == copyLabelAt(heap, ref)
             h == [c.heap EXCEPT ![c.ref] = SetLabel(@, field, Head(values))]
             rest == addToLabelAt(h, ref, field, Tail(values))
         IN  [refs |-> <<c.ref>> \o rest.refs, heap |-> rest.heap]

RECURSIVE AppendEachAt(_, _, _, _, _, _)
\* addDimension's loop over labels[lo..hi], split in two to keep the evaluation shallow
AppendEachAt(heap, labs, lo, hi, field, values) ==
    IF lo > hi
    THEN [heap |-> heap, refs |-> <<>>]
    ELSE IF lo = hi
    THEN addToLabelAt(heap, labs[lo], field, values)
    ELSE LET mid == (lo + hi) \div 2
             left == AppendEachAt(heap, labs, lo, mid, field, values)
             right == AppendEachAt(left.heap, labs, mid + 1, hi, field, values)
         IN  [refs |-> left.refs \o right.refs, heap |-> right.heap]

\* addDimension on slices of references
addDimensionAt(heap, labs, field, values) ==
    IF Len(labs) = 0
    THEN addToLabelAt(Append(heap, EmptyLabel), Len(heap) + 1, field, values)
    ELSE AppendEachAt(heap, labs, 1, Len(labs), field, values)

\* the statements of prometheus.go:386-416, in order
PrefixProgram ==
    << [op |-> "expand", from |-> "none", field |-> demandSourceLabel],
       [op |-> "expand", from |-> "labels", field |-> requestTypeLabel],
       [op |-> "expand", from |-> "labels", field |-> browserLabel],
       [op |-> "expand", from |-> "labels", field |-> cookieLabel],
       [op |-> "save", to |-> "adapterLabels"],
       [op |-> "expand", from |-> "labels", field |-> responseStatusLabel],
       [op |-> "with", families |-> {"requests", "reqTimer"}],
       [op |-> "expand", from |-> "adapterLabels", field |-> adapterLabel],
       [op |-> "save", to |-> "errorLabels"],
       [op |-> "expand", from |-> "labels", field |-> adapterBidLabel],
       [op |-> "with",
        families |-> {"adaptRequests", "adaptTimer", "adaptPrices", "adaptPanics"}],
       [op |-> "expand", from |-> "labels", field |-> bidTypeLabel],
       [op |-> "expand", from |-> "labels", field |-> markupTypeLabel],
       [op |-> "with", families |-> {"adaptBids"}],
       [op |-> "expand", from |-> "errorLabels", field |-> adapterErrLabel],
       [op |-> "with", families |-> {"adaptErrors"}] >>

\* the families this part of initializeTimeSeries pre-creates series for
PrefixFamilies ==
    {"requests", "reqTimer", "adaptRequests", "adaptTimer", "adaptPrices", "adaptPanics",
     "adaptBids", "adaptErrors"}

\* the dimensions whose values come from functions outside this file
SuppliedDims ==
    {demandSourceLabel, requestTypeLabel, browserLabel, cookieLabel, responseStatusLabel,
     adapterLabel, adapterBidLabel, bidTypeLabel, adapterErrLabel}

DomainInputs ==
    {[n \in DOMAIN DeclaredValues |->
         IF n \in SuppliedDims THEN SubSeq(DeclaredValues[n], 1, size[n])
                               ELSE DeclaredValues[n]] :
        size \in [SuppliedDims -> 1..2]}

\* the maps a slice refers to, as they are now
Deref(heap, refs) == [i \in 1..Len(refs) |-> heap[refs[i]]]

InitPrefix ==
    /\ MainInit
    /\ DimIdle
    /\ reg = NoReg
    /\ workers = NoWorkers
    /\ cache = NoCache
    /\ har = NoHar
    /\ conn = NoConn
    /\ \E d \in DomainInputs :
          pre = [pc |-> 1, domains |-> d, heap |-> <<>>,
                 slices |-> [v \in {"labels", "adapterLabels", "errorLabels"} |-> <<>>],
                 saved |-> [v \in {"adapterLabels", "errorLabels"} |-> <<>>],
                 touched |-> [f \in PrefixFamilies |-> {}]]

PrefixAt(op) ==
    /\ pre.pc \in 1..Len(PrefixProgram)
    /\ PrefixProgram[pre.pc].op = op

\* labels = addDimension(<slice>, field, values)
ExpandPrefix ==
    /\ PrefixAt("expand")
    /\ LET i == PrefixProgram[pre.pc]
           from == IF i.from = "none" THEN <<>> ELSE pre.slices[i.from]
           r == addDimensionAt(pre.heap, from, i.field, pre.domains[i.field])
       IN  pre' = [pre EXCEPT !.heap = r.heap, !.slices["labels"] = r.refs, !.pc = @ + 1]
    /\ UNCHANGED <<mainVars, dimVars, reg, workers, cache, har, conn>>

\* adapterLabels := labels; errorLabels := labels
SavePrefix ==
    /\ PrefixAt("save")
    /\ LET i == PrefixProgram[pre.pc]
       IN  pre' = [pre EXCEPT !.slices[i.to] = pre.slices["labels"],
                              !.saved[i.to] = Deref(pre.heap, pre.slices["labels"]),
                              !.pc = @ + 1]
    /\ UNCHANGED <<mainVars, dimVars, reg, workers, cache, har, conn>>

\* for _, l := range labels { _ = m.<family>.With(l) ... }
WithPrefix ==
    /\ PrefixAt("with")
    /\ LET i == PrefixProgram[pre.pc]
           ls == Range(Deref(pre.heap, pre.slices["labels"]))
       IN  pre' = [pre EXCEPT !.touched = [f \in PrefixFamilies |->
                                              IF f \in i.families THEN @[f] \cup ls
                                                                  ELSE @[f]],
                              !.pc = @ + 1]
    /\ UNCHANGED <<mainVars, dimVars, reg, workers, cache, har, conn>>

NextPrefix ==
    \/ ExpandPrefix
    \/ SavePrefix
    \/ WithPrefix

SpecPrefix == InitPrefix /\ [][NextPrefix]_vars

(***************************************************************************)
(* C17: reusing the saved prefixes changes nothing about the result: the   *)
(* assignments each of the request, adapter, bid and error families is     *)
(* pre-created with are exactly those of its full dimension list expanded  *)
(* on its own, and the maps that adapterLabels and errorLabels refer to    *)
(* stay as they were when they were saved, whatever is expanded later.     *)
(***************************************************************************)
C17_PrefixReuse ==
    /\ \A v \in DOMAIN pre.saved : Deref(pre.heap, pre.slices[v]) = pre.saved[v]
    \* right after its With loop, and again when the last statement is done
    /\ \A f \in PrefixFamilies :
          (\/ pre.pc > Len(PrefixProgram)
           \/ /\ pre.pc > 1
              /\ PrefixProgram[pre.pc - 1].op = "with"
              /\ f \in PrefixProgram[pre.pc - 1].families)
          => pre.touched[f] = EnumerateFamily(pre.domains, f)
    \* with the domains of NewMetrics these are the series NewMetrics pre-creates
    /\ (pre.pc > Len(PrefixProgram) /\ pre.domains = DeclaredValues) =>
          \A f \in PrefixFamilies : DOMAIN NewMetrics[f] = pre.touched[f]

C17_Witness ==
    /\ pre.pc > Len(PrefixProgram)
    /\ Len(pre.saved["adapterLabels"]) = 16
    /\ Len(pre.saved["errorLabels"]) = 32
    /\ Cardinality(pre.touched["adaptBids"]) = 256
    /\ Cardinality(pre.touched["adaptErrors"]) = 64

\* the families initializeTimeSeries pre-creates series for: all but legacyImps and userID
PrecreatedFamilies == {f \in FamilyFields : IsVec(f)} \ {"legacyImps", "userID"}

(***************************************************************************)
(* C18: pre-creation is complete before any recording: a recording call on *)
(* the Metrics value can be made only when NewMetrics has returned it, and *)
(* NewMetrics returns it only when every declared family is registered and *)
(* initializeTimeSeries has run, so that every series it pre-creates is    *)
(* there at the first recording call and at every later one.               *)
(***************************************************************************)
C18_PrecreatedBeforeRecording ==
    /\ reg.pc # "returned" => (nCalls = 0 /\ call = NoCall)
    /\ reg.pc = "returned" =>
          /\ reg.idx = Len(reg.decl) + 1
          /\ \A i \in 1..Len(reg.decl) :
                /\ FQName(reg.cfg, reg.decl[i].name) \in DOMAIN reg.registry
                /\ reg.decl[i].field \in DOMAIN series
          /\ \A f \in PrecreatedFamilies :
                EnumerateFamily(DeclaredValues, f) \subseteq DOMAIN series[f]
          /\ \A f \in FamilyFields \ PrecreatedFamilies :
                ~IsVec(f) => EmptyLabel \in DOMAIN series[f]

C18_Witness ==
    /\ reg.pc = "returned"
    /\ nCalls = 1
    /\ call.op = "RecordRequest"
    /\ series["requests"][resolveLabels(call.labels)] = 1
    /\ Cardinality(DOMAIN series["requests"]) = 32

(***************************************************************************)
(* SpecConc: several workers (request-handling goroutines) record through  *)
(* the same engine at the same time.  Each worker makes one call; a step   *)
(* is one backend update of one worker's call, which the backends make     *)
(* atomically, so the interleavings are those of the backend updates.      *)
(***************************************************************************)
MaxWorkers == 2

Workers == 1..MaxWorkers

IdleWorker == [pc |-> "idle", call |-> NoCall, idx |-> 0, sent |-> <<>>]

\* the recording calls the workers make
ConcCallInputs ==
    {[op |-> "RecordRequest", labels |-> LabelsAt(1)],
     [op |-> "RecordAdapterRequest", labels |-> AdapterLabelsAt(2, Range(adapterErrorsAsString))],
     [op |-> "RecordStoredReqCacheResult", cacheResult |-> "hit", num |-> 2],
     [op |-> "RecordStoredReqCacheResult", cacheResult |-> "hit", num |-> -1]}

InitConc ==
    /\ MainInit
    /\ DimIdle
    /\ reg = NoReg
    /\ pre = NoPre
    /\ cache = NoCache
    /\ har = NoHar
    /\ conn = NoConn
    /\ workers = [w \in Workers |-> IdleWorker]

\* a worker calls a method of the MetricsEngine interface on the shared engine
WorkerBegin(w) ==
    /\ pc = "ready"
    /\ workers[w].pc = "idle"
    /\ \E c \in ConcCallInputs :
          workers' = [workers EXCEPT ![w] = [pc |-> "calling", call |-> c, idx |-> 1,
                                             sent |-> <<>>]]
    /\ UNCHANGED <<mainVars, dimVars, reg, pre, cache, har, conn>>

\* DummyMetricsEngine: the worker's call is a noop and returns
WorkerDummy(w) ==
    /\ workers[w].pc = "calling"
    /\ engine.variant = "Dummy"
    /\ applied' = DummyRecord(applied, workers[w].call)
    /\ workers' = [workers EXCEPT ![w].pc = "returned"]
    /\ UNCHANGED <<pc, cfg, engine, series, call, idx, callLog, failed, nCalls,
                   dimVars, reg, pre, cache, har, conn>>

\* one iteration of the worker's "for _, thisME := range *me": the update of thisME
\* is called; when it panics, the panic unwinds the worker's call
WorkerForward(w) ==
    /\ workers[w].pc = "calling"
    /\ engine.variant \in {"Single", "Multi"}
    /\ workers[w].idx <= Len(engine.list)
    /\ LET me == workers[w]
           thisME == ThisME(engine.list, me.idx)
           r == IF thisME = "Prometheus" THEN PromRecord(series, me.call) ELSE Done(series)
       IN  /\ series' = r.m
           /\ applied' = IF r.panic THEN applied
                         ELSE IF thisME = "GoMetrics" THEN GoMetricsRecord(applied, me.call)
                         ELSE [applied EXCEPT ![thisME] = @ + 1]
           /\ workers' = [workers EXCEPT ![w].sent = Append(@, thisME),
                                         ![w].idx = IF r.panic THEN @ ELSE @ + 1,
                                         ![w].pc = IF r.panic THEN "panicked" ELSE @]
    /\ UNCHANGED <<pc, cfg, engine, call, idx, callLog, failed, nCalls,
                   dimVars, reg, pre, cache, har, conn>>

\* the worker's loop is over: its call returns
WorkerReturn(w) ==
    /\ workers[w].pc = "calling"
    /\ engine.variant \in {"Single", "Multi"}
    /\ workers[w].idx > Len(engine.list)
    /\ workers' = [workers EXCEPT ![w].pc = "returned"]
    /\ UNCHANGED <<mainVars, dimVars, reg, pre, cache, har, conn>>

NextConc ==
    \/ NewMetricsEngine
    \/ NewMultiMetricsEngine
    \/ \E w \in Workers : WorkerBegin(w)
    \/ \E w \in Workers : WorkerDummy(w)
    \/ \E w \in Workers : WorkerForward(w)
    \/ \E w \in Workers : WorkerReturn(w)

SpecConc == InitConc /\ [][NextConc]_vars

\* the number of times backend b occurs in a sequence of backends
TimesSent(sent, b) == Cardinality({i \in 1..Len(sent) : sent[i] = b})

(***************************************************************************)
(* C19: with several workers recording on the same engine at the same      *)
(* time, in every interleaving each call, once over, has been forwarded    *)
(* exactly once to every backend of the engine, and no step of a recording *)
(* call changes the engine: its variant and its backend list stay as       *)
(* NewMetricsEngine built them.                                            *)
(***************************************************************************)
C19_ConcurrentFanOut ==
    [][pc = "ready" =>
          /\ engine' = engine
          /\ cfg' = cfg
          /\ \A w \in Workers :
                workers'[w].pc \in {"returned", "panicked"} =>
                   \A b \in Range(engine.list) : TimesSent(workers'[w].sent, b) = 1]_vars

(***************************************************************************)
(* SpecCache: one PutJson call of the prebid cache client against a cache  *)
(* server.  The client's code is not part of the sources at hand; PutJson  *)
(* is modelled from what its tests demand of it (client_test.go), the      *)
(* server from the handlers of those tests.                                *)
(***************************************************************************)
MaxValues == 2

\* the Data of the Cacheable values put
CacheDataPool == {"true", "false", "{}"}

ValuesInputs == UNION {[1..n -> CacheDataPool] : n \in 0..MaxValues}

\* the status codes of the test handlers: newHandler writes a body (200), the handler of
\* TestBadResponse writes 500; 400 stands for any other error status
StatusInputs == {200, 400, 500}

UUIDPool == <<"0", "1", "2", "3">>

\* newHandler(numResponses): the response carries the UUIDs "0", "1", ... in order
newHandler(numResponses) == [i \in 1..numResponses |-> UUIDPool[i]]

NoIds(values) == <<>>

\* uuidsToReturn as PutJson allocates it: one empty id for each value
EmptyIds(values) == [i \in 1..Len(values) |-> ""]

\* the ids after a successful response: the i-th UUID of the response for the i-th value
ParseResponse(ids, uuids) ==
    [i \in 1..Len(ids) |-> IF i <= Len(uuids) THEN uuids[i] ELSE ids[i]]

NeverWithoutValues(values) == FALSE

\* PutJson has nothing to put: a nil slice of values has length 0 as an empty one has
WithoutValues(values) == Len(values) = 0

\* isNil tells the nil slice of values from the empty slice []Cacheable{}
InitCache ==
    /\ MainInit
    /\ DimIdle
    /\ reg = NoReg
    /\ pre = NoPre
    /\ workers = NoWorkers
    /\ har = NoHar
    /\ conn = NoConn
    /\ \E values \in ValuesInputs, cancelled \in BOOLEAN, isNil \in BOOLEAN :
          /\ isNil => values = <<>>
          /\ cache = [pc |-> "start", values |-> values, isNil |-> isNil,
                      cancelled |-> cancelled,
                      ids |-> <<>>, sent |-> 0, status |-> 0, uuids |-> <<>>]

\* PutJson is called: without values it returns at once, else it allocates the ids
PutJson ==
    /\ cache.pc = "start"
    /\ cache' = IF WithoutValues(cache.values)
                THEN [cache EXCEPT !.pc = "returned"]
                ELSE [cache EXCEPT !.pc = "sending", !.ids = EmptyIds(cache.values)]
    /\ UNCHANGED <<mainVars, dimVars, reg, pre, workers, har, conn>>

\* the request is sent under the caller's context; a cancelled context fails it at once
SendRequest ==
    /\ cache.pc = "sending"
    /\ cache' = IF cache.cancelled
                THEN [cache EXCEPT !.pc = "returned"]
                ELSE [cache EXCEPT !.pc = "waiting", !.sent = @ + 1]
    /\ UNCHANGED <<mainVars, dimVars, reg, pre, workers, har, conn>>

\* the cache server answers: an error status, or one UUID for each value put
ServerRespond ==
    /\ cache.pc = "waiting"
    /\ \E status \in StatusInputs :
          cache' = [cache EXCEPT !.pc = "responded",
                                 !.status = status,
                                 !.uuids = IF status = 200
                                           THEN newHandler(Len(cache.values))
                                           ELSE <<>>]
    /\ UNCHANGED <<mainVars, dimVars, reg, pre, workers, har, conn>>

\* PutJson reads the response and returns the ids
ReadResponse ==
    /\ cache.pc = "responded"
    /\ cache' = IF cache.status = 200
                THEN [cache EXCEPT !.pc = "returned",
                                   !.ids = ParseResponse(cache.ids, cache.uuids)]
                ELSE [cache EXCEPT !.pc = "returned"]
    /\ UNCHANGED <<mainVars, dimVars, reg, pre, workers, har, conn>>

NextCache ==
    \/ PutJson
    \/ SendRequest
    \/ ServerRespond
    \/ ReadResponse

SpecCache == InitCache /\ [][NextCache]_vars

(***************************************************************************)
(* C20: PutJson returns one id for each value put, in the order of the     *)
(* values, whatever the outcome: every id is the empty string when the     *)
(* server answered with an error status or the context was cancelled       *)
(* already, and the i-th id is the i-th UUID of the response on success.   *)
(***************************************************************************)
C20_OneIdPerValue ==
    cache.pc = "returned" =>
        /\ Len(cache.ids) = Len(cache.values)
        /\ (cache.cancelled \/ cache.status # 200) =>
              \A i \in 1..Len(cache.ids) : cache.ids[i] = ""
        /\ (cache.status = 200) =>
              \A i \in 1..Len(cache.ids) : cache.ids[i] = cache.uuids[i]

C20_Witness ==
    /\ cache.pc = "returned"
    /\ Len(cache.values) = 2
    /\ cache.status = 200
    /\ cache.ids = <<"0", "1">>

(***************************************************************************)
(* C21: PutJson called with a nil or an empty list of values returns zero  *)
(* ids and sends no request to the cache server.                           *)
(***************************************************************************)
C21_EmptyPut ==
    (cache.pc # "idle" /\ Len(cache.values) = 0) =>
        /\ cache.sent = 0
        /\ cache.pc \in {"start", "returned"}
        /\ cache.pc = "returned" => Len(cache.ids) = 0

C21_Witness ==
    /\ cache.pc = "returned"
    /\ cache.isNil
    /\ Len(cache.values) = 0
    /\ cache.ids = <<>>
    /\ cache.sent = 0

(***************************************************************************)
(* SpecHarness: RunJSONBidderTest, the harness that runs a bidder on the   *)
(* JSON spec files of its test directories.  A check of the harness ends   *)
(* in one of three ways: it returns (having called t.Errorf or not), it    *)
(* ends the test by t.Fatalf, or it panics.                                *)
(***************************************************************************)
Returned(errorf) == [end |-> "return", failed |-> errorf]
Fatalf == [end |-> "fatal", failed |-> TRUE]
Panicked == [end |-> "panic", failed |-> FALSE]

\* the outcome of check r followed, when r returned, by check s
Then(r, s) == IF r.end # "return" THEN r
              ELSE [end |-> s.end, failed |-> r.failed \/ s.failed]

\* a nil error in a list of errors
NilError == "<nil>"

\* the messages of the errors a bidder returns, and the values of the expected errors
ErrorMessages == {"bad", "bad imp"}
ErrorValues == {"bad", "^bad$", "("}
Comparisons == {"literal", "regex", "fuzzy"}

\* regexp.MatchString(pattern, s): "bad" is found in both messages, "^bad$" is the
\* whole of the first only, and "(" does not compile (the error is dropped, no match)
RegexMatch(pattern, s) ==
    CASE pattern = "bad" -> TRUE
      [] pattern = "^bad$" -> s = "bad"
      [] OTHER -> FALSE

RECURSIVE assertErrorListFrom(_, _, _)
assertErrorListFrom(actual, expected, i) ==
    IF i > Len(actual) THEN Returned(FALSE)
    ELSE IF expected[i].Comparison = "literal"
    THEN IF actual[i] = NilError
         THEN Panicked
         ELSE Then(Returned(expected[i].Value # actual[i]),
                   assertErrorListFrom(actual, expected, i + 1))
    ELSE IF expected[i].Comparison = "regex"
    THEN IF actual[i] = NilError
         THEN Panicked
         ELSE Then(Returned(~RegexMatch(expected[i].Value, actual[i])),
                   assertErrorListFrom(actual, expected, i + 1))
    ELSE Fatalf

assertErrorList(actual, expected) ==
    IF Len(expected) # Len(actual) THEN Fatalf
    ELSE assertErrorListFrom(actual, expected, 1)

\* *adapters.RequestData: nil, or the Uri and the JSON body of a request
NilRequest == [isNil |-> TRUE, Uri |-> "", Body |-> ""]
RequestData(uri, body) == [isNil |-> FALSE, Uri |-> uri, Body |-> body]

\* *adapters.TypedBid: nil, or a bid type and a Bid, which is nil or marshals to JSON
NilBid == "<nil>"
NilTypedBid == [isNil |-> TRUE, Bid |-> NilBid, BidType |-> ""]
TypedBid(bid, bidType) == [isNil |-> FALSE, Bid |-> bid, BidType |-> bidType]

\* *adapters.BidderResponse: nil, or a list of typed bids
NilBidderResponse == [isNil |-> TRUE, Bids |-> <<>>]
BidderResponse(bids) == [isNil |-> FALSE, Bids |-> bids]

diffStrings(actual, expected) == Returned(actual # expected)

\* JSON texts are compared as their canonical forms; the texts of the pools are legal JSON
diffJson(actual, expected) ==
    IF actual = "" /\ expected = "" THEN Returned(FALSE)
    ELSE IF actual = "" \/ expected = "" THEN Fatalf
    ELSE Returned(actual # expected)

\* the expected requests of the pools carry no headers
diffHttpRequests(actual, expected) ==
    IF actual.isNil THEN Returned(TRUE)
    ELSE Then(diffStrings(actual.Uri, expected.Uri), diffJson(actual.Body, expected.Body))

RECURSIVE diffHttpRequestsFrom(_, _, _)
diffHttpRequestsFrom(actual, expected, i) ==
    IF i > Len(actual) THEN Returned(FALSE)
    ELSE Then(diffHttpRequests(actual[i], expected[i].Request),
              diffHttpRequestsFrom(actual, expected, i + 1))

assertMakeRequestsOutput(actual, expected) ==
    IF Len(expected) # Len(actual) THEN Fatalf
    ELSE diffHttpRequestsFrom(actual, expected, 1)

diffOrtbBids(actual, expected) ==
    IF actual = NilBid THEN Returned(TRUE)
    ELSE diffJson(actual, expected)

diffBids(actual, expected) ==
    IF actual.isNil THEN Returned(TRUE)
    ELSE Then(diffStrings(actual.BidType, expected.Type),
              diffOrtbBids(actual.Bid, expected.Bid))

RECURSIVE diffBidsFrom(_, _, _)
diffBidsFrom(actual, expected, i) ==
    IF i > Len(actual) THEN Returned(FALSE)
    ELSE Then(diffBids(actual[i], expected[i]), diffBidsFrom(actual, expected, i + 1))

assertMakeBidsOutput(actual, expected) ==
    IF Len(actual) # Len(expected) THEN Fatalf
    ELSE diffBidsFrom(actual, expected, 1)

\* the last loop of testMakeBidsImpl: bidResponses[i].Bids is read for every expected
\* bid response i, whether bidResponses has an entry i and whether it is nil or not
RECURSIVE AssertBidResponsesFrom(_, _, _)
AssertBidResponsesFrom(bidResponses, expected, i) ==
    IF i > Len(expected) THEN Returned(FALSE)
    ELSE IF i > Len(bidResponses) THEN Panicked
    ELSE IF bidResponses[i].isNil THEN Panicked
    ELSE Then(assertMakeBidsOutput(bidResponses[i].Bids, expected[i].Bids),
              AssertBidResponsesFrom(bidResponses, expected, i + 1))

MaxFiles == 1
MaxHttpCalls == 2

\* the directories of RunJSONBidderTest, in the order it runs them, with the
\* allowErrors, isAmpTest and isVideoTest it passes to runTests
Directories ==
    <<[name |-> "exemplary", allowErrors |-> FALSE, isAmpTest |-> FALSE, isVideoTest |-> FALSE],
      [name |-> "supplemental", allowErrors |-> TRUE, isAmpTest |-> FALSE, isVideoTest |-> FALSE],
      [name |-> "amp", allowErrors |-> TRUE, isAmpTest |-> TRUE, isVideoTest |-> FALSE],
      [name |-> "video", allowErrors |-> FALSE, isAmpTest |-> FALSE, isVideoTest |-> TRUE]>>

SeqsUpTo(S, n) == UNION {[1..k -> S] : k \in 0..n}

\* the spec files: testSpec without the mock bid request
HttpCallPool ==
    {[Request |-> [Uri |-> "u1", Body |-> "{}"], Response |-> [Status |-> 200]]}
NoBidsExpected == [Bids |-> <<>>]
OneBidExpected == [Bids |-> <<[Bid |-> "{b1}", Type |-> "banner"]>>]
ExpectedBidResponseLists ==
    {<<>>, <<NoBidsExpected>>, <<OneBidExpected>>, <<OneBidExpected, NoBidsExpected>>,
     <<OneBidExpected, OneBidExpected>>, <<OneBidExpected, OneBidExpected, OneBidExpected>>}
ExpectedErrorLists ==
    {<<>>, <<[Value |-> "bad", Comparison |-> "literal"]>>,
           <<[Value |-> "bad", Comparison |-> "fuzzy"]>>}

SpecFileInputs ==
    [HttpCalls : SeqsUpTo(HttpCallPool, MaxHttpCalls),
     BidResponses : ExpectedBidResponseLists,
     MakeRequestErrors : ExpectedErrorLists,
     MakeBidsErrors : ExpectedErrorLists]

\* what a bidder may return: requests, bidder responses and lists of errors
ReturnedRequests == {NilRequest, RequestData("u1", "{}")}
ReturnedErrorLists == {<<>>, <<NilError>>, <<"bad">>}
ReturnedBidsErrorLists == {<<>>, <<"bad">>}
ReturnedBidderResponses ==
    {NilBidderResponse, BidderResponse(<<>>), BidderResponse(<<NilTypedBid>>),
     BidderResponse(<<TypedBid("{b1}", "banner")>>)}

expectsMakeRequestsErrors(spec) == Len(spec.MakeRequestErrors) > 0

expectsErrors(spec) == Len(spec.MakeRequestErrors) > 0 \/ Len(spec.MakeBidsErrors) > 0

\* the entry point runSpec puts in the ExtraRequestInfo
PbsEntryPoint(isAmpTest, isVideoTest) ==
    IF isAmpTest THEN "amp" ELSE IF isVideoTest THEN "video" ELSE ""

\* a call of the bidder: MakeRequests with the entry point of the request info, or
\* MakeBids with the request and the response of the httpCall-th expected call
BidderCall(fn, entry, httpCall) == [fn |-> fn, entry |-> entry, httpCall |-> httpCall]

NoSpecFile == [HttpCalls |-> <<>>, BidResponses |-> <<>>,
               MakeRequestErrors |-> <<>>, MakeBidsErrors |-> <<>>]

\* the locals of the run of one file at its start (and once they are out of scope):
\* nothing called, nothing returned yet
FileStart(h, spec) ==
    [h EXCEPT !.spec = spec, !.calls = <<>>, !.actualReqs = <<>>, !.errs = <<>>,
              !.checked = FALSE, !.bidResponses = <<>>, !.bidsErrs = <<>>]

InitHarness ==
    /\ MainInit
    /\ DimIdle
    /\ reg = NoReg
    /\ pre = NoPre
    /\ workers = NoWorkers
    /\ cache = NoCache
    /\ conn = NoConn
    /\ har = [pc |-> "runTests", dir |-> 1, files |-> 0, failed |-> FALSE,
              spec |-> NoSpecFile, calls |-> <<>>, actualReqs |-> <<>>, errs |-> <<>>,
              checked |-> FALSE, bidResponses |-> <<>>, bidsErrs |-> <<>>]

\* a check has ended with outcome r: the test goes on at pc next, or ends
AfterCheck(h, r, next) ==
    [h EXCEPT !.pc = IF r.end = "return" THEN next
                     ELSE IF r.end = "fatal" THEN "fatal" ELSE "panicked",
              !.failed = @ \/ r.failed]

\* runTests has run every file of the directory (or could not read the directory):
\* RunJSONBidderTest goes on with the next directory
EndOfDirectory ==
    /\ har.pc = "runTests"
    /\ har' = IF har.dir < Len(Directories)
              THEN [FileStart(har, NoSpecFile) EXCEPT !.dir = @ + 1, !.files = 0]
              ELSE [FileStart(har, NoSpecFile) EXCEPT !.pc = "done"]
    /\ UNCHANGED <<mainVars, dimVars, reg, pre, workers, cache, conn>>

\* runTests loads the next file of the directory: the test ends when the file cannot be
\* loaded and, where the directory allows no errors, when the file expects some
LoadSpecFile ==
    /\ har.pc = "runTests"
    /\ har.files < MaxFiles
    /\ \/ har' = [FileStart(har, NoSpecFile) EXCEPT !.pc = "fatal", !.failed = TRUE,
                                                      !.files = @ + 1]
       \/ \E spec \in SpecFileInputs :
             har' = IF ~Directories[har.dir].allowErrors /\ expectsErrors(spec)
                    THEN [FileStart(har, spec) EXCEPT !.pc = "fatal", !.failed = TRUE,
                                                      !.files = @ + 1]
                    ELSE [FileStart(har, spec) EXCEPT !.pc = "runSpec", !.files = @ + 1]
    /\ UNCHANGED <<mainVars, dimVars, reg, pre, workers, cache, conn>>

\* testMakeRequestsImpl: the bidder's MakeRequests is called and its output checked;
\* checked tells that the checks have let testMakeRequestsImpl return to runSpec
TestMakeRequestsImpl ==
    /\ har.pc = "runSpec"
    /\ \E reqs \in SeqsUpTo(ReturnedRequests, MaxHttpCalls),
          errs \in ReturnedErrorLists, raced \in BOOLEAN :
          LET d == Directories[har.dir]
              called == [har EXCEPT
                           !.calls = <<BidderCall("MakeRequests",
                                                  PbsEntryPoint(d.isAmpTest, d.isVideoTest),
                                                  0)>>,
                           !.actualReqs = reqs, !.errs = errs]
              r == Then(assertErrorList(errs, har.spec.MakeRequestErrors),
                        Then(assertMakeRequestsOutput(reqs, har.spec.HttpCalls),
                             Returned(raced)))
          IN  har' = [AfterCheck(called, r, "makeBids") EXCEPT !.checked = (r.end = "return")]
    /\ UNCHANGED <<mainVars, dimVars, reg, pre, workers, cache, conn>>

HttpCallOfFirst(i) == 1

\* the expected httpCall whose request and response are handed to the i-th MakeBids call
HttpCallOf(i) == i

\* testMakeBidsImpl, one turn of its first loop: MakeBids is called for the next request
\* that MakeRequests returned, with the expected httpCall of the same index
CallMakeBids ==
    /\ har.pc = "makeBids"
    /\ Len(har.bidResponses) < Len(har.actualReqs)
    /\ LET i == Len(har.bidResponses) + 1 IN
       IF HttpCallOf(i) > Len(har.spec.HttpCalls)
       THEN har' = [har EXCEPT !.pc = "panicked"]
       ELSE \E thisBidResponse \in ReturnedBidderResponses, theseErrs \in ReturnedBidsErrorLists :
               har' = [har EXCEPT
                         !.calls = Append(@, BidderCall("MakeBids", "", HttpCallOf(i))),
                         !.bidsErrs = @ \o theseErrs,
                         !.bidResponses = Append(@, thisBidResponse)]
    /\ UNCHANGED <<mainVars, dimVars, reg, pre, workers, cache, conn>>

\* testMakeBidsImpl after its first loop: the errors and the bids of MakeBids are
\* checked; runTests then goes on with the next file
AssertMakeBids ==
    /\ har.pc = "makeBids"
    /\ Len(har.bidResponses) = Len(har.actualReqs)
    /\ LET r == Then(assertErrorList(har.bidsErrs, har.spec.MakeBidsErrors),
                     AssertBidResponsesFrom(har.bidResponses, har.spec.BidResponses, 1))
       IN  har' = AfterCheck(har, r, "runTests")
    /\ UNCHANGED <<mainVars, dimVars, reg, pre, workers, cache, conn>>

NextHarness ==
    \/ EndOfDirectory
    \/ LoadSpecFile
    \/ TestMakeRequestsImpl
    \/ CallMakeBids
    \/ AssertMakeBids

SpecHarness == InitHarness /\ [][NextHarness]_vars

(***************************************************************************)
(* C22: runTests with allowErrors false fails fatally on any spec file     *)
(* that expects MakeRequests or MakeBids errors, before the bidder is      *)
(* invoked for that file; RunJSONBidderTest forbids expected errors in the *)
(* exemplary and video directories and allows them in the supplemental and *)
(* amp directories.                                                        *)
(***************************************************************************)
ExpectedErrorsOf(spec) == Len(spec.MakeRequestErrors) + Len(spec.MakeBidsErrors)

C22_ExpectedErrorsForbidden ==
    har.pc \in {"runSpec", "makeBids", "fatal", "panicked"} =>
        LET d == Directories[har.dir] IN
        /\ d.allowErrors <=> d.name \in {"supplemental", "amp"}
        /\ ~d.allowErrors <=> d.name \in {"exemplary", "video"}
        /\ (~d.allowErrors /\ ExpectedErrorsOf(har.spec) > 0) =>
              (har.pc = "fatal" /\ har.calls = <<>>)
        /\ (d.allowErrors /\ ExpectedErrorsOf(har.spec) > 0) =>
              (har.pc = "runSpec" \/ har.calls # <<>>)

C22_Witness ==
    /\ har.pc = "fatal"
    /\ Directories[har.dir].name = "video"
    /\ Len(har.spec.MakeRequestErrors) = 0
    /\ Len(har.spec.MakeBidsErrors) > 0
    /\ har.calls = <<>>

(***************************************************************************)
(* C23: whenever an element of the list of requests returned by            *)
(* MakeRequests, of a returned list of bids, or of a returned list of      *)
(* errors is nil, the harness reports a test failure for it: once the      *)
(* checks of that output have run, the test has failed and has not         *)
(* panicked.                                                               *)
(***************************************************************************)
HasNilRequest(reqs) == \E i \in 1..Len(reqs) : reqs[i].isNil
HasNilError(errs) == \E i \in 1..Len(errs) : errs[i] = NilError
HasNilBid(bidResponses) ==
    \E i \in 1..Len(bidResponses) :
       /\ ~bidResponses[i].isNil
       /\ \E j \in 1..Len(bidResponses[i].Bids) :
             bidResponses[i].Bids[j].isNil \/ bidResponses[i].Bids[j].Bid = NilBid

C23_NilElementsReported ==
    /\ (har.calls # <<>> /\ (HasNilRequest(har.actualReqs) \/ HasNilError(har.errs))) =>
          (har.pc # "panicked" /\ har.failed)
    /\ (har.pc \in {"runTests", "fatal", "panicked"}
          /\ (HasNilBid(har.bidResponses) \/ HasNilError(har.bidsErrs))) =>
          (har.pc # "panicked" /\ har.failed)

(***************************************************************************)
(* C24: for each spec, MakeBids is called once for each request returned   *)
(* by MakeRequests, in order, call i with the i-th expected httpCall, and  *)
(* only after MakeRequests has run and the number of its requests has been *)
(* checked equal to the number of expected httpCalls.                      *)
(***************************************************************************)
IsMakeBids(c) == c.fn = "MakeBids"

C24_MakeBidsPerRequest ==
    har.pc # "idle" =>
        LET bids == SelectSeq(har.calls, IsMakeBids) IN
        /\ \A k \in 1..Len(bids) : bids[k].httpCall = k
        /\ \A k \in 1..Len(har.calls) : IsMakeBids(har.calls[k]) <=> k > 1
        /\ Len(bids) <= Len(har.actualReqs)
        /\ Len(bids) > 0 => har.checked
        /\ har.checked => Len(har.actualReqs) = Len(har.spec.HttpCalls)
        /\ (har.checked /\ har.pc # "makeBids") => Len(bids) = Len(har.actualReqs)

C24_Witness ==
    /\ har.pc = "runTests"
    /\ har.checked
    /\ Len(har.actualReqs) = 2
    /\ har.calls = <<BidderCall("MakeRequests", "amp", 0),
                     BidderCall("MakeBids", "", 1), BidderCall("MakeBids", "", 2)>>

(***************************************************************************)
(* SpecConn: a sequence of RecordConnectionAccept and                      *)
(* RecordConnectionClose calls on the Metrics that NewMetrics returned.    *)
(* conn counts the calls of each kind that have been made.                 *)
(***************************************************************************)
MaxConnCalls == 5

InitConn ==
    /\ pc = "start"
    /\ cfg = NoCfg
    /\ engine = NoEngine
    /\ series = NewMetrics
    /\ applied = [b \in Backends |-> 0]
    /\ call = NoCall
    /\ idx = 0
    /\ callLog = <<>>
    /\ failed = "none"
    /\ nCalls = 0
    /\ DimIdle
    /\ reg = NoReg
    /\ pre = NoPre
    /\ workers = NoWorkers
    /\ cache = NoCache
    /\ har = NoHar
    /\ conn = [pc |-> "recording", accepts |-> 0, acceptErrors |-> 0,
               closes |-> 0, closeErrors |-> 0]

AcceptConnection ==
    /\ conn.pc = "recording"
    /\ nCalls < MaxConnCalls
    /\ \E success \in BOOLEAN :
          LET r == PromRecordConnectionAccept(series, success)
          IN  /\ series' = r.m
              /\ failed' = IF r.panic THEN "Prometheus" ELSE "none"
              /\ conn' = IF success THEN [conn EXCEPT !.accepts = @ + 1]
                         ELSE [conn EXCEPT !.acceptErrors = @ + 1]
    /\ nCalls' = nCalls + 1
    /\ UNCHANGED <<pc, cfg, engine, applied, call, idx, callLog, dimVars,
                   reg, pre, workers, cache, har>>

CloseConnection ==
    /\ conn.pc = "recording"
    /\ nCalls < MaxConnCalls
    /\ \E success \in BOOLEAN :
          LET r == PromRecordConnectionClose(series, success)
          IN  /\ series' = r.m
              /\ failed' = IF r.panic THEN "Prometheus" ELSE "none"
              /\ conn' = IF success THEN [conn EXCEPT !.closes = @ + 1]
                         ELSE [conn EXCEPT !.closeErrors = @ + 1]
    /\ nCalls' = nCalls + 1
    /\ UNCHANGED <<pc, cfg, engine, applied, call, idx, callLog, dimVars,
                   reg, pre, workers, cache, har>>

NextConn ==
    \/ AcceptConnection
    \/ CloseConnection

SpecConn == InitConn /\ [][NextConn]_vars

(***************************************************************************)
(* C25: after any sequence of RecordConnectionAccept and                   *)
(* RecordConnectionClose calls the active-connections gauge is the number  *)
(* of successful accepts minus the number of successful closes; an         *)
(* unsuccessful accept or close leaves the gauge unchanged and increments  *)
(* only the accept_error or the close_error counter, by one.               *)
(***************************************************************************)
ActiveConnections(m) == m["connCounter"][EmptyLabel]
ConnectionErrors(m, errorType) == m["connError"][ErrorTypeLabel(errorType)]

C25_ActiveConnections ==
    conn.pc = "recording" =>
        /\ failed = "none"
        /\ ActiveConnections(series) = conn.accepts - conn.closes
        /\ ConnectionErrors(series, "accept_error") = conn.acceptErrors
        /\ ConnectionErrors(series, "close_error") = conn.closeErrors
        /\ \A f \in DOMAIN series : \A a \in DOMAIN series[f] :
              (f \notin {"connCounter", "connError"}) => series[f][a] = 0
        /\ DOMAIN series["connError"] =
              {ErrorTypeLabel("accept_error"), ErrorTypeLabel("close_error")}

C25_Witness ==
    /\ conn.pc = "recording"
    /\ conn.accepts = 1
    /\ conn.closes = 2
    /\ conn.acceptErrors = 1
    /\ conn.closeErrors = 1
    /\ ActiveConnections(series) = -1

(***************************************************************************)
(* C26: every label assignment produced by a chain of addDimension calls   *)
(* carries exactly one value, taken from that dimension's domain, for      *)
(* every dimension added in the chain, and no two produced assignments are *)
(* equal, for every choice of domains, an empty domain included.           *)
(***************************************************************************)
C26_EveryDimensionOnce ==
    /\ \A i \in 1..Len(labels) :
          /\ DOMAIN labels[i] \subseteq {d.name : d \in Range(DimsDone)}
          /\ \A d \in Range(DimsDone) :
                /\ d.name \in DOMAIN labels[i]
                /\ labels[i][d.name] \in Range(d.values)
    /\ \A i, j \in 1..Len(labels) : i # j => labels[i] # labels[j]

(***************************************************************************)
(* C27: testMakeBidsImpl never reads past the end of the collected         *)
(* MakeBids results and never dereferences a missing result: once its      *)
(* checks have run it has not panicked, and when they have run to their    *)
(* end every entry i of expectedBidResponses has a non-nil MakeBids result *)
(* at index i.                                                             *)
(***************************************************************************)
C27_BidResultsPresent ==
    (har.pc \in {"runTests", "fatal", "panicked"} /\ har.checked) =>
        /\ har.pc # "panicked"
        /\ har.pc = "runTests" =>
              \A i \in 1..Len(har.spec.BidResponses) :
                 /\ i <= Len(har.bidResponses)
                 /\ ~har.bidResponses[i].isNil

(***************************************************************************)
(* SpecErrorList: assertErrorList applied to a list of actual errors and a *)
(* list of expected errors.                                                *)
(***************************************************************************)
MaxErrors == 2

ActualErrorInputs == SeqsUpTo(ErrorMessages \cup {NilError}, MaxErrors)
ExpectedErrorInputs ==
    SeqsUpTo([Value : ErrorValues, Comparison : Comparisons], MaxErrors)

InitErrorList ==
    /\ MainInit
    /\ DimIdle
    /\ reg = NoReg
    /\ pre = NoPre
    /\ workers = NoWorkers
    /\ cache = NoCache
    /\ conn = NoConn
    /\ \E actual \in ActualErrorInputs, expected \in ExpectedErrorInputs :
          har = [pc |-> "assertErrorList", actual |-> actual, expected |-> expected,
                 outcome |-> Returned(FALSE)]

AssertErrorList ==
    /\ har.pc = "assertErrorList"
    /\ har' = [har EXCEPT !.pc = "asserted",
                          !.outcome = assertErrorList(har.actual, har.expected)]
    /\ UNCHANGED <<mainVars, dimVars, reg, pre, workers, cache, conn>>

NextErrorList == AssertErrorList

SpecErrorList == InitErrorList /\ [][NextErrorList]_vars

(***************************************************************************)
(* C28: assertErrorList accepts an actual error list exactly when it has   *)
(* the length of the expected list and each actual error matches the       *)
(* expected entry of its position, by string equality when the entry's     *)
(* comparison is "literal" and by regular-expression match when it is      *)
(* "regex"; a length mismatch or any other comparison type is a fatal      *)
(* failure.                                                                *)
(***************************************************************************)
MatchesExpected(actual, expected) ==
    /\ actual # NilError
    /\ \/ expected.Comparison = "literal" /\ expected.Value = actual
       \/ expected.Comparison = "regex" /\ RegexMatch(expected.Value, actual)

C28_AcceptsExactlyMatches ==
    har.pc = "asserted" =>
        /\ (har.outcome.end = "return" /\ ~har.outcome.failed) <=>
              /\ Len(har.actual) = Len(har.expected)
              /\ \A i \in 1..Len(har.actual) : MatchesExpected(har.actual[i], har.expected[i])
        /\ (\/ Len(har.actual) # Len(har.expected)
            \/ \E i \in 1..Len(har.expected) :
                  har.expected[i].Comparison \notin {"literal", "regex"}) =>
              har.outcome.end = "fatal"
====
